---- MODULE Spec2Model ----
(***************************************************************************)
(* A model of the multilayer-perceptron training engine of                 *)
(* RobinRCM/sklearn (package neuralnetwork, src/unnamed/part_001) and of   *)
(* its label binarizer.                                                    *)
(*                                                                         *)
(* float64 values are modelled by integers; NaN is a distinguished         *)
(* value with IEEE comparison semantics (every comparison with NaN is      *)
(* false).                                                                 *)
(***************************************************************************)
EXTENDS Integers, Sequences, FiniteSets, TLC

VARIABLES
    \* ---- LabelBinarizer64 (part_001:1258-1357) ----
    lbPc,        \* "new" | "fitted" | "transformed" | "inverted" | "panic"
    NegLabel,    \* LabelBinarizer64.NegLabel
    PosLabel,    \* LabelBinarizer64.PosLabel
    Classes,     \* LabelBinarizer64.Classes : sequence (per label column) of sequences
    lbFitY,      \* the label matrix last given to Fit
    lbY,         \* the label matrix last given to Transform
    lbOut,       \* the matrix Transform returned
    lbInv        \* the matrix InverseTransform returned

lbVars == <<lbPc, NegLabel, PosLabel, Classes, lbFitY, lbY, lbOut, lbInv>>

VARIABLES
    \* ---- BaseMultilayerPerceptron64 (part_001:25-76) ----
    hp,                  \* the hyperparameter fields (Activation .. NIterNoChange)
    LossFuncName,        \* mlp.LossFuncName
    OutActivation,       \* mlp.OutActivation
    NOutputs,            \* mlp.NOutputs
    NIter,               \* mlp.NIter
    t,                   \* mlp.t
    Loss,                \* mlp.Loss
    LossCurve,           \* mlp.LossCurve
    ValidationScores,    \* mlp.ValidationScores
    BestValidationScore, \* mlp.BestValidationScore
    BestLoss,            \* mlp.BestLoss
    NoImprovementCount,  \* mlp.NoImprovementCount
    optimizer,           \* mlp.optimizer
    packedParameters,    \* mlp.packedParameters (the content of the buffer)
    bestParameters,      \* mlp.bestParameters   (the content of the buffer)
    lb,                  \* mlp.lb
    \* ---- the locals of Fit, fit and fitStochastic ----
    pc,                  \* "idle" | "loop" | "batch" | "epochEnd" | "restore"
    X,                   \* the rows of the input matrix, in their current order
    Y,                   \* the rows of the target matrix, in their current order
    yb,                  \* the target matrix handed to fit (after binarization)
    idx,                 \* idx of fitStochastic
    nSamples,            \* nSamples of fitStochastic
    earlyStopping,       \* earlyStopping of fitStochastic
    testSize,            \* testSize of fitStochastic
    it,                  \* the epoch loop counter
    batch,               \* batch of the minibatch loop, <<batch[0], batch[1]>>
    accumulatedLoss,     \* accumulatedLoss of the epoch
    \* ---- what the caller observes ----
    result,              \* how the last Fit ended: "none" | "ok" | "panic"
    notices,             \* "Maximum iterations reached" notices logged by the current Fit
    \* ---- history ----
    fitNo,               \* Fit calls so far
    epochsDone,          \* epochs run so far, over all Fit calls
    paramVer,            \* number of distinct parameter contents produced so far
    fitLog               \* per epoch of the current Fit: the score and the parameters at its end

hpVars == <<hp>>
outVars == <<LossFuncName, OutActivation, NOutputs, NIter, t, Loss, LossCurve,
             ValidationScores, BestValidationScore, BestLoss, NoImprovementCount,
             optimizer, packedParameters, bestParameters, lb>>
localVars == <<pc, X, Y, yb, idx, nSamples, earlyStopping, testSize, it, batch,
               accumulatedLoss>>
histVars == <<result, notices, fitNo, epochsDone, paramVer, fitLog>>
mlpVars == <<hpVars, outVars, localVars, histVars>>

\* the gradient check: its position, the network, what backprop left, and the
\* losses at the moved parameters
VARIABLES gPc, net, bp, numLoss

gradVars == <<gPc, net, bp, numLoss>>

\* batch mode (fitLbfgs): the minimizer's workers (position, point w and
\* loss of the evaluation under way), the mutex, the gradient buffer, the
\* number of points handed out, the (w, g) pairs handed back, and the
\* final parameter vector res.X of the minimizer (0 until it returns)
VARIABLES Concurrent, wPc, wW, wLoss, mu, packedGrads, evalNo, handed, resX

lbfgsVars == <<Concurrent, wPc, wW, wLoss, mu, packedGrads, evalNo, handed, resX>>

\* model loading: its position, the shapes of the weight blocks of the
\* record, the topology fields of the model, and the layer widths a
\* following predictProbas builds its buffers with
VARIABLES ldPc, blocks, NLayers, HiddenLayerSizes, predictUnits

loadVars == <<ldPc, blocks, NLayers, HiddenLayerSizes, predictUnits>>

\* the work buffers of fit during a minibatch sweep: the position, the shape
\* of the sweep (rows, validation rows, BatchSize, layers, active minibatch),
\* the row counts of the activation buffers, the rows of the last layer's
\* delta buffer (one output column), and what backprop returns for the
\* active minibatch: its loss and the last layer's bias gradient
VARIABLES bfPc, sweep, activations, deltas, bufLoss, interceptGrads

bufVars == <<bfPc, sweep, activations, deltas, bufLoss, interceptGrads>>

\* an AdamOptimizer64 on its own: its position, its fields (Beta1, Beta2, t,
\* beta1t, beta2t), the length of the parameter buffer, and, per parameter
\* of the last updateParams call, the values of beta1t and beta2t from which
\* the LearningRate of its update was computed
VARIABLES adPc, adam, nParams, corrections

adamVars == <<adPc, adam, nParams, corrections>>

\* the function lookups of a fit by name: the position, the network
\* (Activation, OutActivation, NLayers), and the index i of the backward
\* loop of backprop
VARIABLES bkPc, bkNet, bkLayer

lookupVars == <<bkPc, bkNet, bkLayer>>

\* base.Shuffle(X, y) (base.go:24-34): its position, the slice X (every
\* row stands for its index in the X of the call), the slice y and whether
\* y is nil, the y of the call, the loop index i (the number of rounds
\* done), and the swap index j of the last round
VARIABLES shPc, shX, shY, shYNil, shY0, shI, shJ

shufVars == <<shPc, shX, shY, shYNil, shY0, shI, shJ>>

nonMlpVars == <<lbVars, gradVars, lbfgsVars, loadVars, bufVars, adamVars, lookupVars, shufVars>>
nonLbVars == <<mlpVars, gradVars, lbfgsVars, loadVars, bufVars, adamVars, lookupVars, shufVars>>
nonGradVars == <<lbVars, mlpVars, lbfgsVars, loadVars, bufVars, adamVars, lookupVars, shufVars>>
nonBufVars == <<lbVars, mlpVars, gradVars, lbfgsVars, loadVars, adamVars, lookupVars, shufVars>>
nonAdamVars == <<lbVars, mlpVars, gradVars, lbfgsVars, loadVars, bufVars, lookupVars, shufVars>>
nonLookupVars == <<lbVars, mlpVars, gradVars, lbfgsVars, loadVars, bufVars, adamVars, shufVars>>
nonShufVars == <<lbVars, mlpVars, gradVars, lbfgsVars, loadVars, bufVars, adamVars, lookupVars>>

vars == <<lbVars, mlpVars, gradVars, lbfgsVars, loadVars, bufVars, adamVars, lookupVars, shufVars>>

-----------------------------------------------------------------------------
(* Bounds *)
MaxRows == 2
MaxCols == 2
MaxLabel == 2
\* largest MaxIter and NIterNoChange a caller sets
MaxIterBound == 3
MaxPatience == 2
\* Fit calls on one model, and epochs over all of them
MaxFits == 2
MaxTotalEpochs == 4
\* largest number of samples given to Fit
MaxSamples == 3

MaxWeight == 1

NumWorkers == 2

MaxBlocks == 3
MaxWidth == 3

\* hidden layers of the networks whose work buffers are followed
MaxHidden == 1

\* length of the parameter buffer and number of updateParams calls of the
\* optimizer followed on its own
MaxParams == 3
MaxSteps == 3

-----------------------------------------------------------------------------
(* float64 *)

\* the value standing for NaN (M64.IsNaN, part_001:1301)
NaN == -999999

\* the value standing for +Inf (M64.Inf(1), part_001:482)
PosInf == 999999

IsNaN(x) == x = NaN

\* Go's == on float64, also the key equality of map[float64]T: NaN equals nothing
FloatEq(a, b) == ~IsNaN(a) /\ ~IsNaN(b) /\ a = b

\* Go's < and > on float64
FloatLt(a, b) == ~IsNaN(a) /\ ~IsNaN(b) /\ a < b

FloatGt(a, b) == FloatLt(b, a)

\* Go's +, - on float64 (the second operand of - is finite or NaN)
FloatAdd(a, b) ==
    IF IsNaN(a) \/ IsNaN(b) THEN NaN
    ELSE IF a = PosInf \/ b = PosInf THEN PosInf
    ELSE a + b

FloatSub(a, b) ==
    IF IsNaN(a) \/ IsNaN(b) THEN NaN
    ELSE IF a = PosInf THEN PosInf
    ELSE a - b

\* a * float64(k) and a / float64(k) for an integer k >= 1; every finite
\* value of the model is a multiple of k, so the quotient is exact
FloatMulInt(a, k) ==
    IF IsNaN(a) THEN NaN ELSE IF a = PosInf THEN PosInf ELSE a * k

FloatDivInt(a, k) ==
    IF IsNaN(a) THEN NaN ELSE IF a = PosInf THEN PosInf ELSE a \div k

-----------------------------------------------------------------------------
(* Dense matrices: blas64.General with Stride = Cols, Data row-major.      *)
(* Rows and columns are numbered from 0 as in the source; Data is a TLA+   *)
(* sequence, so element (i, j) is Data[i * Stride + j + 1].                *)

General64(r, c, d) == [Rows |-> r, Cols |-> c, Data |-> d]

EmptyMatrix == General64(0, 0, <<>>)

At(m, i, j) == m.Data[i * m.Cols + j + 1]

Zeros(n) == [k \in 1..n |-> 0]

\* all r x c matrices over the value set S
Matrices(r, c, S) == {General64(r, c, d) : d \in [1..(r * c) -> S]}

SeqSum(s) ==
    LET RECURSIVE Go(_)
        Go(k) == IF k = 0 THEN 0 ELSE s[k] + Go(k - 1)
    IN Go(Len(s))

-----------------------------------------------------------------------------
(* LabelBinarizer64 *)

\* Float64Slice.Less on two values
Less(a, b) == FloatLt(a, b) \/ (IsNaN(a) /\ ~IsNaN(b))

\* sort.Sort(Float64Slice(s)): for fewer than 12 elements the library runs
\* an insertion sort driven by Less and Swap
SortFloat64Slice(s) ==
    LET Swap(p, a, b) == [p EXCEPT ![a] = p[b], ![b] = p[a]]
        RECURSIVE Sink(_, _)
        Sink(p, j) == IF j > 1 /\ Less(p[j], p[j - 1])
                      THEN Sink(Swap(p, j, j - 1), j - 1)
                      ELSE p
        RECURSIVE Outer(_, _)
        Outer(p, i) == IF i > Len(p) THEN p ELSE Outer(Sink(p, i), i + 1)
    IN Outer(s, 2)

\* the loop of Fit over the rows of column j: the distinct values in
\* insertion order (cmap is keyed by float64, so a NaN is never "present")
FitColumn(y, j) ==
    LET RECURSIVE Go(_, _)
        Go(i, acc) ==
            IF i = y.Rows THEN acc
            ELSE LET yval == At(y, i, j)
                 IN IF \E k \in 1..Len(acc) : FloatEq(acc[k], yval)
                    THEN Go(i + 1, acc)
                    ELSE Go(i + 1, Append(acc, yval))
    IN Go(0, <<>>)

\* LabelBinarizer64.Fit: the new PosLabel and Classes
FitPosLabel(neg, pos) == IF pos = neg THEN pos + 1 ELSE pos

FitClasses(y) == [j \in 1..y.Cols |-> SortFloat64Slice(FitColumn(y, j - 1))]

\* cmap of Transform: the class number of val in classes, or -1 when absent
\* (a later entry of the same key overwrites an earlier one)
ClassNoOf(classes, val) ==
    LET hits == {k \in 1..Len(classes) : FloatEq(classes[k], val)}
    IN IF hits = {} THEN -1 ELSE (CHOOSE k \in hits : \A h \in hits : h <= k) - 1

\* first output column of label column j (0-based) : baseCol
BaseCol(classes, j) == SeqSum([k \in 1..j |-> Len(classes[k])])

\* LabelBinarizer64.Transform: Yout starts as zeros; per label column and
\* row one single entry is written: PosLabel at the class of a seen value,
\* NegLabel at class number 0 (the zero value of classNo) for an unseen one
Transform(classes, neg, pos, y) ==
    LET nOut == SeqSum([k \in 1..Len(classes) |-> Len(classes[k])])
        RECURSIVE Rows(_, _, _)
        Rows(d, j, i) ==
            IF i = y.Rows THEN d
            ELSE LET classNo == ClassNoOf(classes[j + 1], At(y, i, j))
                     yo0 == i * nOut
                     base == BaseCol(classes, j)
                 IN IF classNo >= 0
                    THEN Rows([d EXCEPT ![yo0 + base + classNo + 1] = pos], j, i + 1)
                    ELSE Rows([d EXCEPT ![yo0 + base + 0 + 1] = neg], j, i + 1)
        RECURSIVE ColsLoop(_, _)
        ColsLoop(d, j) == IF j = y.Cols THEN d ELSE ColsLoop(Rows(d, j, 0), j + 1)
    IN General64(y.Rows, nOut, ColsLoop(Zeros(y.Rows * nOut), 0))

\* MaxIdx64: index (0-based) of the arithmetic maximum, lowest index on ties
MaxIdx64(s) ==
    CHOOSE k \in 0..(Len(s) - 1) :
        /\ \A h \in 0..(Len(s) - 1) : s[h + 1] <= s[k + 1]
        /\ \A h \in 0..(k - 1) : s[h + 1] < s[k + 1]

\* LabelBinarizer64.InverseTransform.  The loop header advances baseCol by
\* len(Classes[j]) and so does the last statement of the body.  A slice
\* expression whose upper bound exceeds the capacity of Data panics.
InverseTransform(classes, y) ==
    LET nOut == Len(classes)
        RECURSIVE Rows(_, _, _, _)
        Rows(d, j, baseCol, i) ==
            IF i = y.Rows THEN [panicked |-> FALSE, Data |-> d]
            ELSE LET yi == i * y.Cols
                     lo == yi + baseCol
                     hi == yi + baseCol + Len(classes[j + 1])
                 IN IF hi > Len(y.Data) \/ Len(classes[j + 1]) = 0
                    THEN [panicked |-> TRUE, Data |-> d]
                    ELSE LET classNo == MaxIdx64(SubSeq(y.Data, lo + 1, hi))
                         IN Rows([d EXCEPT ![i * nOut + j + 1] = classes[j + 1][classNo + 1]],
                                 j, baseCol, i + 1)
        RECURSIVE Blocks(_, _, _)
        Blocks(d, j, baseCol) ==
            IF ~(baseCol < y.Cols) THEN [panicked |-> FALSE, Data |-> d]
            ELSE IF j >= Len(classes) THEN [panicked |-> TRUE, Data |-> d]
            ELSE LET r == Rows(d, j, baseCol, 0)
                     inBody == baseCol + Len(classes[j + 1])
                 IN IF r.panicked THEN r
                    ELSE Blocks(r.Data, j + 1, inBody + Len(classes[j + 1]))
        res == Blocks(Zeros(y.Rows * nOut), 0, 0)
    IN [panicked |-> res.panicked, Y |-> General64(y.Rows, nOut, res.Data)]

-----------------------------------------------------------------------------
(* backprop on a network of one input, one hidden unit and one output     *)
(* (identity output, square_loss), on one sample.                          *)
(*                                                                         *)
(* Values are exact rationals [n, d] with d > 0.  The argument of Exp is   *)
(* counted in units of ln 2 and the argument of Tanh in units of ln(2)/2,  *)
(* so that both have rational values on the integers: the pre-activation   *)
(* of a logistic (tanh) hidden unit, and with it w1 and b1, is counted in  *)
(* that unit.                                                              *)

GCD(a, b) ==
    LET RECURSIVE G(_, _)
        G(u, v) == IF v = 0 THEN u ELSE G(v, u % v)
        Abs(u) == IF u < 0 THEN -u ELSE u
    IN G(Abs(a), Abs(b))

Rat(n, d) ==
    LET g == GCD(n, d)
    IN IF g = 0 THEN [n |-> 0, d |-> 1] ELSE [n |-> n \div g, d |-> d \div g]

RatInt(k) == [n |-> k, d |-> 1]

RatAdd(a, b) ==
    LET g == GCD(a.d, b.d)
    IN Rat(a.n * (b.d \div g) + b.n * (a.d \div g), (a.d \div g) * b.d)

RatNeg(a) == [n |-> -a.n, d |-> a.d]

RatSub(a, b) == RatAdd(a, RatNeg(b))

RatMul(a, b) ==
    LET g1 == GCD(a.n, b.d)
        g2 == GCD(b.n, a.d)
    IN IF a.n = 0 \/ b.n = 0 THEN RatInt(0)
       ELSE Rat((a.n \div g1) * (b.n \div g2), (a.d \div g2) * (b.d \div g1))

RatMulInt(a, k) == RatMul(a, RatInt(k))

RatHalf(a) == Rat(a.n, 2 * a.d)

RatSign(a) == IF a.n > 0 THEN 1 ELSE IF a.n < 0 THEN -1 ELSE 0

Pow2(k) ==
    LET RECURSIVE P(_)
        P(i) == IF i <= 0 THEN 1 ELSE 2 * P(i - 1)
    IN P(k)

\* M64.Exp of k units of ln 2
Exp(k) == IF k >= 0 THEN RatInt(Pow2(k)) ELSE [n |-> 1, d |-> Pow2(-k)]

\* M64.Tanh of k units of ln(2)/2: (e^2u - 1) / (e^2u + 1) with e^2u = 2^k
Tanh(k) ==
    IF k >= 0 THEN Rat(Pow2(k) - 1, Pow2(k) + 1)
    ELSE Rat(1 - Pow2(-k), 1 + Pow2(-k))

\* Activations64[name] on the pre-activation z of the hidden unit
Activations64(name, z) ==
    CASE name = "identity" -> RatInt(z)
      [] name = "logistic" ->
            LET e == Exp(-z) IN Rat(e.d, e.d + e.n)
      [] name = "tanh" -> Tanh(-z)
      [] name = "relu" -> IF z < 0 THEN RatInt(0) ELSE RatInt(z)

\* Derivatives64[name]: deltas multiplied by the derivative, Z the
\* activation value
Derivatives64(name, Z, delta) ==
    CASE name = "identity" -> delta
      [] name = "logistic" -> RatMul(delta, RatMul(Z, RatSub(RatInt(1), Z)))
      [] name = "tanh" -> RatMul(delta, RatSub(RatInt(1), RatMul(Z, Z)))
      [] name = "relu" -> IF Z.n = 0 THEN RatInt(0) ELSE delta

\* forwardPass: activations[0..2] of the network n
forwardPass(n) ==
    LET h == Activations64(n.Activation, n.x * n.w1 + n.b1)
        o == RatAdd(RatMulInt(h, n.w2), RatInt(n.b2))
    IN <<RatInt(n.x), h, o>>

\* LossFunctions64["square_loss"] on one row and one column
square_loss(yv, h) ==
    LET e == RatSub(h, RatInt(yv)) IN RatHalf(RatMul(e, e))

sumCoefSquares(n) == n.w1 * n.w1 + n.w2 * n.w2

\* backprop: the loss it returns and what it leaves in deltas, coefGrads
\* and interceptGrads (nSamples = 1)
backprop(n) ==
    LET a == forwardPass(n)
        lossv == RatAdd(square_loss(n.y, a[3]), RatHalf(RatInt(n.Alpha * sumCoefSquares(n))))
        d1 == RatSub(a[3], RatInt(n.y))
        d0 == Derivatives64(n.Activation, a[2], RatMulInt(d1, n.w2))
        \* computeLossGrad
        cg(layer, d) == RatAdd(RatMul(a[layer + 1], d),
                               RatInt(n.Alpha * (IF layer = 0 THEN n.w1 ELSE n.w2)))
    IN [loss |-> lossv, activations |-> a, deltas |-> <<d0, d1>>,
        coefGrads |-> <<cg(0, d0), cg(1, d1)>>, interceptGrads |-> <<d0, d1>>]

\* the parameters of the network, and the network with one of them moved
ParamNames == {"w1", "b1", "w2", "b2"}

Moved(n, p, s) ==
    CASE p = "w1" -> [n EXCEPT !.w1 = @ + s]
      [] p = "b1" -> [n EXCEPT !.b1 = @ + s]
      [] p = "w2" -> [n EXCEPT !.w2 = @ + s]
      [] p = "b2" -> [n EXCEPT !.b2 = @ + s]

\* the networks checked: L2 regularization is applied where w1 is counted
\* in the unit of the loss (identity and relu hidden units)
Nets ==
    {n \in [Activation : {"identity", "logistic", "tanh", "relu"},
            Alpha : {0, 1}, x : {1, 2},
            y : -MaxWeight..MaxWeight, w1 : -MaxWeight..MaxWeight,
            b1 : -MaxWeight..MaxWeight, w2 : -MaxWeight..MaxWeight,
            b2 : -MaxWeight..MaxWeight] :
        n.Activation \in {"logistic", "tanh"} => n.Alpha = 0}

NoNet == [Activation |-> "", Alpha |-> 0, x |-> 0, y |-> 0, w1 |-> 0, b1 |-> 0,
          w2 |-> 0, b2 |-> 0]

NoBackprop == [loss |-> RatInt(0), activations |-> <<>>, deltas |-> <<>>,
               coefGrads |-> <<>>, interceptGrads |-> <<>>]

\* no record is loaded: a model built by NewBaseMultilayerPerceptron64
\* (HiddenLayerSizes: []int{100}, here one hidden layer of MaxWidth units)
LoadOff ==
    /\ ldPc = "off"
    /\ blocks = <<>>
    /\ NLayers = 0
    /\ HiddenLayerSizes = <<MaxWidth>>
    /\ predictUnits = <<>>

\* no batch-mode fit is run
LbfgsOff ==
    /\ Concurrent = 0
    /\ wPc = <<>>
    /\ wW = <<>>
    /\ wLoss = <<>>
    /\ mu = 0
    /\ packedGrads = 0
    /\ evalNo = 0
    /\ handed = {}
    /\ resX = 0

\* no gradient check is run beside the fit or the label binarizer
GradOff == gPc = "off" /\ net = NoNet /\ bp = NoBackprop /\ numLoss = <<>>

NoLookup == [Activation |-> "", OutActivation |-> "", NLayers |-> 0]

\* no fit followed through its lookups
LookupOff == bkPc = "off" /\ bkNet = NoLookup /\ bkLayer = 0

\* no call of base.Shuffle
ShufOff ==
    /\ shPc = "off"
    /\ shX = <<>>
    /\ shY = <<>>
    /\ shYNil = TRUE
    /\ shY0 = <<>>
    /\ shI = 0
    /\ shJ = 0

NoAdam == [Beta1 |-> RatInt(0), Beta2 |-> RatInt(0), t |-> 0,
           beta1t |-> RatInt(0), beta2t |-> RatInt(0)]

\* no optimizer followed on its own
AdamOff == adPc = "off" /\ adam = NoAdam /\ nParams = 0 /\ corrections = <<>>

NoSweep == [nSamples |-> 0, testSize |-> 0, BatchSize |-> 0, layers |-> 0, batch |-> <<0, 0>>]

\* no sweep over work buffers under way
BufOff ==
    /\ bfPc = "off"
    /\ sweep = NoSweep
    /\ activations = <<>>
    /\ deltas = <<>>
    /\ bufLoss = RatInt(0)
    /\ interceptGrads = RatInt(0)

-----------------------------------------------------------------------------
(* BaseMultilayerPerceptron64: hyperparameters                             *)
(*                                                                         *)
(* Numeric hyperparameters are integers in a unit of their own:            *)
(* ValidationFraction in units of 1/VFDen, the learning rate in units of   *)
(* 1e-6, Tol, losses and scores in one common unit.                        *)

\* ValidationFraction is hp.ValidationFraction / VFDen
VFDen == 2

\* every finite loss, score and Tol of the model is a multiple of Unit, so
\* that the quotients the code forms (by nSamples) are exact
Unit ==
    LET RECURSIVE Fact(_)
        Fact(k) == IF k <= 1 THEN 1 ELSE k * Fact(k - 1)
    IN Fact(MaxSamples)

\* NewBaseMultilayerPerceptron64, in the model's units, with a small
\* iteration cap, patience and batch size
BaseHP ==
    [Activation |-> "relu", Solver |-> "adam", Alpha |-> 0, BatchSize |-> 200,
     LearningRate |-> "constant", LearningRateInit |-> 25, MaxIter |-> MaxIterBound,
     Shuffle |-> FALSE, Tol |-> Unit, WarmStart |-> FALSE, Momentum |-> 1,
     EarlyStopping |-> FALSE, ValidationFraction |-> 1, Beta1 |-> 0, Beta2 |-> 0,
     Epsilon |-> 1, NIterNoChange |-> MaxPatience]

\* the keys of Activations64
ActivationNames == {"identity", "logistic", "tanh", "relu", "softmax"}

\* validateHyperparameters: TRUE when no check panics
validateHyperparameters(h) ==
    /\ ~(h.MaxIter <= 0)
    /\ ~(h.Alpha < 0)
    /\ ~(h.LearningRateInit <= 0)
    /\ ~(h.Momentum > 1 \/ h.Momentum < 0)
    /\ ~(h.ValidationFraction < 0 \/ h.ValidationFraction >= VFDen)
    /\ ~(h.Beta1 < 0 \/ h.Beta1 >= 1)
    /\ ~(h.Beta2 < 0 \/ h.Beta2 >= 1)
    /\ ~(h.Epsilon <= 0)
    /\ ~(h.NIterNoChange <= 0)
    /\ h.Activation \in ActivationNames
    /\ h.LearningRate \in {"constant", "invscaling", "adaptive"}
    /\ h.Solver \in {"sgd", "adam", "lbfgs"}

\* the hyperparameter settings of which exactly one field is invalid
InvalidHPs ==
    {[BaseHP EXCEPT !.MaxIter = 0], [BaseHP EXCEPT !.MaxIter = -1],
     [BaseHP EXCEPT !.Alpha = -1], [BaseHP EXCEPT !.LearningRateInit = 0],
     [BaseHP EXCEPT !.Momentum = 2], [BaseHP EXCEPT !.Momentum = -1],
     [BaseHP EXCEPT !.ValidationFraction = -1],
     [BaseHP EXCEPT !.ValidationFraction = VFDen],
     [BaseHP EXCEPT !.Beta1 = 1], [BaseHP EXCEPT !.Beta1 = -1],
     [BaseHP EXCEPT !.Beta2 = 1], [BaseHP EXCEPT !.Beta2 = -1],
     [BaseHP EXCEPT !.Epsilon = 0], [BaseHP EXCEPT !.NIterNoChange = 0],
     [BaseHP EXCEPT !.Activation = "bogus"],
     [BaseHP EXCEPT !.LearningRate = "bogus"],
     [BaseHP EXCEPT !.Solver = "bogus"]}

\* solver and learning-rate schedule of the stochastic mode (the schedule is
\* read by the sgd optimizer only)
SolverSchedules ==
    {<<"adam", "constant">>, <<"sgd", "constant">>, <<"sgd", "invscaling">>,
     <<"sgd", "adaptive">>}

\* settings that vary what the stopping policies read
StoppingHPs ==
    {[BaseHP EXCEPT !.Solver = s[1], !.LearningRate = s[2], !.MaxIter = m,
                    !.NIterNoChange = p, !.Tol = tl, !.EarlyStopping = es] :
        s \in SolverSchedules, m \in 1..MaxIterBound, p \in 1..MaxPatience,
        tl \in {0, Unit}, es \in BOOLEAN}

\* momentum-SGD settings: every schedule, from a rate of 25e-6 and of 1e-6
SgdHPs ==
    {[BaseHP EXCEPT !.Solver = "sgd", !.LearningRate = s, !.LearningRateInit = l,
                    !.MaxIter = m, !.NIterNoChange = p, !.EarlyStopping = es] :
        s \in {"constant", "invscaling", "adaptive"}, l \in {1, 25},
        m \in 1..MaxIterBound, p \in 1..MaxPatience, es \in BOOLEAN}

\* settings that vary what the data path reads
DataHPs ==
    {[BaseHP EXCEPT !.Solver = "sgd", !.MaxIter = m, !.Shuffle = sh,
                    !.EarlyStopping = es, !.BatchSize = b,
                    !.ValidationFraction = vf] :
        m \in 1..2, sh \in BOOLEAN, es \in BOOLEAN, b \in {0, 1, 2, 200},
        vf \in 0..(VFDen - 1)}

-----------------------------------------------------------------------------
(* BaseMultilayerPerceptron64: parameters, optimizers, data                *)

\* The content of a parameter buffer is modelled by a number: NilParams is
\* the nil slice, ZeroParams a buffer of zeros (make), and k >= 1 the k-th
\* content produced by initialize (random weights) or by an optimizer step.
NilParams == -1
ZeroParams == 0

NilOptimizer ==
    [kind |-> "nil", LearningRateInit |-> 0, LearningRate |-> [num |-> 0, den |-> 1],
     LRSchedule |-> "", steps |-> 0]

\* &SGDOptimizer64{...} / &AdamOptimizer64{...} of fitStochastic.  The
\* learning rate is num / den^PowerT, in units of 1e-6; steps counts the
\* updateParams calls (0: velocities, ms, vs not yet allocated, t = 0).
NewOptimizer(h) ==
    IF h.Solver \in {"sgd", "adam"}
    THEN [kind |-> h.Solver, LearningRateInit |-> h.LearningRateInit,
          LearningRate |-> [num |-> h.LearningRateInit, den |-> 1],
          LRSchedule |-> IF h.Solver = "sgd" THEN h.LearningRate ELSE "",
          steps |-> 0]
    ELSE NilOptimizer

\* Optimizer64.iterationEnds(timeStep)
iterationEnds(opt, timeStep) ==
    IF opt.kind = "sgd" /\ opt.LRSchedule = "invscaling"
    THEN [opt EXCEPT !.LearningRate = [num |-> opt.LearningRateInit, den |-> timeStep + 1]]
    ELSE opt

\* a triggerStopping whose adam branch returns false
triggerStopping_AdamContinues(opt) ==
    IF opt.kind = "adam" THEN [stop |-> FALSE, opt |-> opt]
    ELSE IF opt.LRSchedule # "adaptive" THEN [stop |-> TRUE, opt |-> opt]
    ELSE IF opt.LearningRate.num <= 1 THEN [stop |-> TRUE, opt |-> opt]
    ELSE [stop |-> FALSE,
          opt |-> [opt EXCEPT !.LearningRate.num = opt.LearningRate.num \div 5]]

\* a triggerStopping whose adaptive branch leaves the rate as it is
triggerStopping_NoShrink(opt) ==
    IF opt.kind = "adam" THEN [stop |-> TRUE, opt |-> opt]
    ELSE IF opt.LRSchedule # "adaptive" THEN [stop |-> TRUE, opt |-> opt]
    ELSE IF opt.LearningRate.num <= 1 THEN [stop |-> TRUE, opt |-> opt]
    ELSE [stop |-> FALSE, opt |-> opt]

\* Optimizer64.triggerStopping: the returned flag and the optimizer afterwards
triggerStopping(opt) ==
    IF opt.kind = "adam" THEN [stop |-> TRUE, opt |-> opt]
    ELSE IF opt.LRSchedule # "adaptive" THEN [stop |-> TRUE, opt |-> opt]
    ELSE IF opt.LearningRate.num <= 1 THEN [stop |-> TRUE, opt |-> opt]
    ELSE [stop |-> FALSE,
          opt |-> [opt EXCEPT !.LearningRate.num = opt.LearningRate.num \div 5]]

\* Optimizer64.updateParams: one more step taken
updateParams(opt) == [opt EXCEPT !.steps = opt.steps + 1]

NilLB == [isNil |-> TRUE, NegLabel |-> 0, PosLabel |-> 0, Classes |-> <<>>]

isBinarized64(m) == \A k \in 1..Len(m.Data) : m.Data[k] = 0 \/ m.Data[k] = 1

\* target matrices given to Fit, by kind: a 0/1 column; two 0/1 columns
\* with rows 1 0 and 1 1 (several labels per row); two 0/1 columns with
\* rows 0 1 and 1 0 (one class per row); and a column of the values 1 and 2
Target(kind, n) ==
    IF kind = "binary"
    THEN General64(n, 1, [k \in 1..n |-> (k - 1) % 2])
    ELSE IF kind = "multilabel"
    THEN General64(n, 2, [k \in 1..(2 * n) |-> IF k % 2 = 1 THEN 1 ELSE ((k - 1) \div 2) % 2])
    ELSE IF kind = "onehot"
    THEN General64(n, 2, [k \in 1..(2 * n) |-> IF k % 2 = 1 THEN ((k - 1) \div 2) % 2
                                                 ELSE 1 - (((k - 1) \div 2) % 2)])
    ELSE General64(n, 1, [k \in 1..n |-> 1 + ((k - 1) % 2)])

\* testSize = int(Ceil(ValidationFraction * nSamples))
TestSize(h, n) == (h.ValidationFraction * n + VFDen - 1) \div VFDen

\* the batch size fit stores in mlp.BatchSize
ClippedBatchSize(h, n) ==
    IF h.Solver = "lbfgs" THEN n
    ELSE IF h.BatchSize <= 0 THEN (IF n > 200 THEN 200 ELSE n)
    ELSE IF h.BatchSize > n THEN n
    ELSE h.BatchSize

\* indexedXY.Swap(i, j) on <<idx, X, Y>> (i, j from 0)
IndexedXYSwap(s, i, j) ==
    LET Sw(q) == [q EXCEPT ![i + 1] = q[j + 1], ![j + 1] = q[i + 1]]
    IN <<Sw(s[1]), Sw(s[2]), Sw(s[3])>>

\* indexedXY.Less(i, j)
IndexedXYLess(s, i, j) == s[1][i + 1] < s[1][j + 1]

\* rand.Shuffle(n, swap): for i = n-1 down to 1, swap(i, j) with a drawn
\* j in 0..i; draws[i] is the j drawn for i
ShuffleDraws(n) == {d \in [1..(n - 1) -> 0..(n - 1)] : \A i \in 1..(n - 1) : d[i] <= i}

Shuffled(s, n, draws) ==
    LET RECURSIVE Go(_, _)
        Go(q, i) == IF i <= 0 THEN q
                    ELSE Go(IndexedXYSwap(q, i, draws[i]), i - 1)
    IN Go(s, n - 1)

\* sort.Sort(indexedXY{...}): insertion sort driven by Less and Swap
SortIndexedXY(s, n) ==
    LET RECURSIVE Sink(_, _)
        Sink(q, j) == IF j > 0 /\ IndexedXYLess(q, j, j - 1)
                      THEN Sink(IndexedXYSwap(q, j, j - 1), j - 1)
                      ELSE q
        RECURSIVE Outer(_, _)
        Outer(q, i) == IF i >= n THEN q ELSE Outer(Sink(q, i), i + 1)
    IN Outer(s, 1)

\* an end of fitStochastic without the sort
RestoreOrder_NoSort(s, n, shuffle) == s

\* the restore of the row order at the end of fitStochastic
RestoreOrder(s, n, shuffle) == IF shuffle THEN SortIndexedXY(s, n) ELSE s

\* the row positions of XVal, yVal (from 1)
ValidationRows == {k \in 1..nSamples : k > nSamples - testSize}

\* mlp.score(XVal, yVal) panics: in predict, lb.Transform indexes
\* lb.Classes by the columns of the prediction buffer, which has the width
\* of the binarized targets; r2Score64 panics ("yDen=0") when a column of
\* the validation targets is constant
scorePanics ==
    \/ (~lb.isNil /\ yb.Cols > Len(lb.Classes))
    \/ (LossFuncName = "square_loss" /\
        \E c \in 0..(yb.Cols - 1) :
            \A k1 \in ValidationRows : \A k2 \in ValidationRows :
                At(yb, Y[k1] - 1, c) = At(yb, Y[k2] - 1, c))

\* what mlp.score returns when the network scores s on a non-empty
\* validation slice: accuracyScore64 of an empty slice is 0/0
score(s) == IF testSize = 0 /\ LossFuncName # "square_loss" THEN NaN ELSE s

-----------------------------------------------------------------------------
(* BaseMultilayerPerceptron64: Fit as a state machine *)

\* a model as the caller builds it: the struct's zero values, the given
\* hyperparameters and loss function name
MLPNew(h, lossFuncName) ==
    /\ hp = h
    /\ LossFuncName = lossFuncName
    /\ OutActivation = ""
    /\ NOutputs = 0
    /\ NIter = 0
    /\ t = 0
    /\ Loss = 0
    /\ LossCurve = <<>>
    /\ ValidationScores = <<>>
    /\ BestValidationScore = 0
    /\ BestLoss = 0
    /\ NoImprovementCount = 0
    /\ optimizer = NilOptimizer
    /\ packedParameters = NilParams
    /\ bestParameters = NilParams
    /\ lb = NilLB
    /\ pc = "idle"
    /\ X = <<>>
    /\ Y = <<>>
    /\ yb = EmptyMatrix
    /\ idx = <<>>
    /\ nSamples = 0
    /\ earlyStopping = FALSE
    /\ testSize = 0
    /\ it = 0
    /\ batch = <<0, 0>>
    /\ accumulatedLoss = 0
    /\ result = "none"
    /\ notices = 0
    /\ fitNo = 0
    /\ epochsDone = 0
    /\ paramVer = 0
    /\ fitLog = <<>>

\* the caller assigns WarmStart and MaxIter between two fits
SetParams ==
    /\ pc = "idle"
    /\ fitNo >= 1
    /\ fitNo < MaxFits
    /\ \E w \in BOOLEAN, m \in 0..MaxIterBound :
        hp' = [hp EXCEPT !.WarmStart = w, !.MaxIter = m]
    /\ UNCHANGED <<nonMlpVars, outVars, localVars, histVars>>

\* a Fit that builds an optimizer only when the model has none
FitBegin_KeepsOptimizer(n, kind) ==
    /\ pc = "idle"
    /\ fitNo < MaxFits
    /\ hp.MaxIter <= MaxTotalEpochs - epochsDone
    /\ LET target == Target(kind, n)
           useLB == LossFuncName # "square_loss" /\ ~isBinarized64(target)
           newLB == IF useLB
                    THEN [isNil |-> FALSE, NegLabel |-> 0, PosLabel |-> FitPosLabel(0, 1),
                          Classes |-> FitClasses(target)]
                    ELSE lb
           ybin == IF useLB THEN Transform(newLB.Classes, newLB.NegLabel, newLB.PosLabel, target)
                   ELSE target
           fresh == ~hp.WarmStart
           isClassifier == isBinarized64(ybin)
           isMulticlass == ybin.Cols > 1
       IN /\ lb' = newLB
          /\ fitNo' = fitNo + 1
          /\ fitLog' = <<>>
          /\ notices' = 0
          /\ IF ~validateHyperparameters(hp)
             THEN \* log.Panicf in validateHyperparameters
                  /\ result' = "panic"
                  /\ UNCHANGED <<hp, LossFuncName, OutActivation, NOutputs, NIter, t, Loss,
                                 LossCurve, ValidationScores, BestValidationScore, BestLoss,
                                 NoImprovementCount, optimizer, packedParameters,
                                 bestParameters, localVars, epochsDone, paramVer>>
             ELSE IF ~fresh /\ packedParameters = NilParams
             THEN \* warm start of a model never initialized: NLayers is 0 and
                  \* make([]blas64General, mlp.NLayers-1) panics
                  /\ result' = "panic"
                  /\ NOutputs' = ybin.Cols
                  /\ hp' = [hp EXCEPT !.BatchSize = ClippedBatchSize(hp, n)]
                  /\ UNCHANGED <<LossFuncName, OutActivation, NIter, t, Loss,
                                 LossCurve, ValidationScores, BestValidationScore, BestLoss,
                                 NoImprovementCount, optimizer, packedParameters,
                                 bestParameters, localVars, epochsDone, paramVer>>
             ELSE /\ result' = "none"
                  /\ NOutputs' = ybin.Cols
                  /\ hp' = [hp EXCEPT !.BatchSize = ClippedBatchSize(hp, n)]
                  \* initialize
                  /\ NIter' = IF fresh THEN 0 ELSE NIter
                  /\ t' = IF fresh THEN 0 ELSE t
                  /\ OutActivation' = IF ~fresh THEN OutActivation
                                      ELSE IF ~isClassifier THEN "identity"
                                      ELSE IF isMulticlass THEN "softmax"
                                      ELSE "logistic"
                  /\ LossFuncName' = IF ~fresh THEN LossFuncName
                                     ELSE IF ~isClassifier THEN "square_loss"
                                     ELSE IF isMulticlass THEN "log_loss"
                                     ELSE "binary_log_loss"
                  /\ packedParameters' = IF fresh THEN paramVer + 1 ELSE packedParameters
                  /\ paramVer' = IF fresh THEN paramVer + 1 ELSE paramVer
                  /\ BestLoss' = IF fresh THEN PosInf ELSE BestLoss
                  \* fitStochastic up to the epoch loop
                  /\ optimizer' = IF optimizer = NilOptimizer THEN NewOptimizer(hp) ELSE optimizer
                  /\ earlyStopping' = hp.EarlyStopping
                  /\ nSamples' = n
                  /\ testSize' = IF hp.EarlyStopping THEN TestSize(hp, n) ELSE 0
                  /\ bestParameters' = IF hp.EarlyStopping THEN ZeroParams ELSE bestParameters
                  /\ idx' = [k \in 1..n |-> k - 1]
                  /\ X' = [k \in 1..n |-> k]
                  /\ Y' = [k \in 1..n |-> k]
                  /\ yb' = ybin
                  /\ it' = 0
                  /\ batch' = <<0, 0>>
                  /\ accumulatedLoss' = 0
                  /\ pc' = "loop"
                  /\ UNCHANGED <<Loss, LossCurve, ValidationScores, BestValidationScore,
                                 NoImprovementCount, epochsDone>>
    /\ UNCHANGED nonMlpVars

\* Fit up to the first epoch: Fit (label binarization), fit (validation,
\* initialize, batch size) and the head of fitStochastic (optimizer,
\* validation split, idx).  n is the number of samples, kind the kind of
\* target matrix.
FitBegin(n, kind) ==
    /\ pc = "idle"
    /\ fitNo < MaxFits
    /\ hp.MaxIter <= MaxTotalEpochs - epochsDone
    /\ LET target == Target(kind, n)
           useLB == LossFuncName # "square_loss" /\ ~isBinarized64(target)
           newLB == IF useLB
                    THEN [isNil |-> FALSE, NegLabel |-> 0, PosLabel |-> FitPosLabel(0, 1),
                          Classes |-> FitClasses(target)]
                    ELSE lb
           ybin == IF useLB THEN Transform(newLB.Classes, newLB.NegLabel, newLB.PosLabel, target)
                   ELSE target
           fresh == ~hp.WarmStart
           isClassifier == isBinarized64(ybin)
           isMulticlass == ybin.Cols > 1
       IN /\ lb' = newLB
          /\ fitNo' = fitNo + 1
          /\ fitLog' = <<>>
          /\ notices' = 0
          /\ IF ~validateHyperparameters(hp)
             THEN \* log.Panicf in validateHyperparameters
                  /\ result' = "panic"
                  /\ UNCHANGED <<hp, LossFuncName, OutActivation, NOutputs, NIter, t, Loss,
                                 LossCurve, ValidationScores, BestValidationScore, BestLoss,
                                 NoImprovementCount, optimizer, packedParameters,
                                 bestParameters, localVars, epochsDone, paramVer>>
             ELSE IF ~fresh /\ packedParameters = NilParams
             THEN \* warm start of a model never initialized: NLayers is 0 and
                  \* make([]blas64General, mlp.NLayers-1) panics
                  /\ result' = "panic"
                  /\ NOutputs' = ybin.Cols
                  /\ hp' = [hp EXCEPT !.BatchSize = ClippedBatchSize(hp, n)]
                  /\ UNCHANGED <<LossFuncName, OutActivation, NIter, t, Loss,
                                 LossCurve, ValidationScores, BestValidationScore, BestLoss,
                                 NoImprovementCount, optimizer, packedParameters,
                                 bestParameters, localVars, epochsDone, paramVer>>
             ELSE /\ result' = "none"
                  /\ NOutputs' = ybin.Cols
                  /\ hp' = [hp EXCEPT !.BatchSize = ClippedBatchSize(hp, n)]
                  \* initialize
                  /\ NIter' = IF fresh THEN 0 ELSE NIter
                  /\ t' = IF fresh THEN 0 ELSE t
                  /\ OutActivation' = IF ~fresh THEN OutActivation
                                      ELSE IF ~isClassifier THEN "identity"
                                      ELSE IF isMulticlass THEN "softmax"
                                      ELSE "logistic"
                  /\ LossFuncName' = IF ~fresh THEN LossFuncName
                                     ELSE IF ~isClassifier THEN "square_loss"
                                     ELSE IF isMulticlass THEN "log_loss"
                                     ELSE "binary_log_loss"
                  /\ packedParameters' = IF fresh THEN paramVer + 1 ELSE packedParameters
                  /\ paramVer' = IF fresh THEN paramVer + 1 ELSE paramVer
                  /\ BestLoss' = IF fresh THEN PosInf ELSE BestLoss
                  \* fitStochastic up to the epoch loop
                  /\ optimizer' = NewOptimizer(hp)
                  /\ earlyStopping' = hp.EarlyStopping
                  /\ nSamples' = n
                  /\ testSize' = IF hp.EarlyStopping THEN TestSize(hp, n) ELSE 0
                  /\ bestParameters' = IF hp.EarlyStopping THEN ZeroParams ELSE bestParameters
                  /\ idx' = [k \in 1..n |-> k - 1]
                  /\ X' = [k \in 1..n |-> k]
                  /\ Y' = [k \in 1..n |-> k]
                  /\ yb' = ybin
                  /\ it' = 0
                  /\ batch' = <<0, 0>>
                  /\ accumulatedLoss' = 0
                  /\ pc' = "loop"
                  /\ UNCHANGED <<Loss, LossCurve, ValidationScores, BestValidationScore,
                                 NoImprovementCount, epochsDone>>
    /\ UNCHANGED nonMlpVars

\* an epoch head that shuffles whatever mlp.Shuffle says
ShuffleEpoch_Always ==
    /\ pc = "loop"
    /\ IF TRUE
       THEN \E draws \in ShuffleDraws(nSamples) :
                LET r == Shuffled(<<idx, X, Y>>, nSamples, draws)
                IN idx' = r[1] /\ X' = r[2] /\ Y' = r[3]
       ELSE UNCHANGED <<idx, X, Y>>
    /\ accumulatedLoss' = 0
    /\ batch' = <<0, hp.BatchSize>>
    /\ pc' = IF 0 < nSamples - testSize THEN "batch" ELSE "epochEnd"
    /\ UNCHANGED <<nonMlpVars, hpVars, outVars, yb, nSamples, earlyStopping, testSize, it,
                   histVars>>

\* the head of one epoch: the shuffle and the start of the minibatch loop
ShuffleEpoch ==
    /\ pc = "loop"
    /\ IF hp.Shuffle
       THEN \E draws \in ShuffleDraws(nSamples) :
                LET r == Shuffled(<<idx, X, Y>>, nSamples, draws)
                IN idx' = r[1] /\ X' = r[2] /\ Y' = r[3]
       ELSE UNCHANGED <<idx, X, Y>>
    /\ accumulatedLoss' = 0
    /\ batch' = <<0, hp.BatchSize>>
    /\ pc' = IF 0 < nSamples - testSize THEN "batch" ELSE "epochEnd"
    /\ UNCHANGED <<nonMlpVars, hpVars, outVars, yb, nSamples, earlyStopping, testSize, it,
                   histVars>>

\* a minibatch loop that does not clip the end of the last minibatch
Minibatch_NoClip(batchLoss) ==
    /\ pc = "batch"
    /\ LET b1 == batch[2]
       IN /\ accumulatedLoss' = FloatAdd(accumulatedLoss, FloatMulInt(batchLoss, b1 - batch[1]))
          /\ optimizer' = updateParams(optimizer)
          /\ packedParameters' = paramVer + 1
          /\ paramVer' = paramVer + 1
          /\ batch' = <<b1, b1 + hp.BatchSize>>
          /\ pc' = IF b1 < nSamples - testSize THEN "batch" ELSE "epochEnd"
    /\ UNCHANGED <<nonMlpVars, hpVars, LossFuncName, OutActivation, NOutputs, NIter, t, Loss,
                   LossCurve, ValidationScores, BestValidationScore, BestLoss,
                   NoImprovementCount, bestParameters, lb,
                   X, Y, yb, idx, nSamples, earlyStopping, testSize, it,
                   result, notices, fitNo, epochsDone, fitLog>>

\* one minibatch: backprop, whose loss is batchLoss, and updateParams
Minibatch(batchLoss) ==
    /\ pc = "batch"
    /\ LET b1 == IF batch[2] > nSamples - testSize THEN nSamples - testSize ELSE batch[2]
       IN /\ accumulatedLoss' = FloatAdd(accumulatedLoss, FloatMulInt(batchLoss, b1 - batch[1]))
          /\ optimizer' = updateParams(optimizer)
          /\ packedParameters' = paramVer + 1
          /\ paramVer' = paramVer + 1
          /\ batch' = <<b1, b1 + hp.BatchSize>>
          /\ pc' = IF b1 < nSamples - testSize THEN "batch" ELSE "epochEnd"
    /\ UNCHANGED <<nonMlpVars, hpVars, LossFuncName, OutActivation, NOutputs, NIter, t, Loss,
                   LossCurve, ValidationScores, BestValidationScore, BestLoss,
                   NoImprovementCount, bestParameters, lb,
                   X, Y, yb, idx, nSamples, earlyStopping, testSize, it,
                   result, notices, fitNo, epochsDone, fitLog>>

\* updateNoImprovementCount with lastValidScore the score of the validation
\* slice (read when earlyStopping only) and lastLoss the loss just appended
NewNoImprovementCount(lastValidScore, lastLoss) ==
    IF earlyStopping
    THEN IF FloatLt(lastValidScore, FloatAdd(BestValidationScore, hp.Tol))
         THEN NoImprovementCount + 1 ELSE 0
    ELSE IF FloatGt(lastLoss, FloatSub(BestLoss, hp.Tol))
         THEN NoImprovementCount + 1 ELSE 0

NewBestValidationScore(lastValidScore) ==
    IF earlyStopping /\ FloatGt(lastValidScore, BestValidationScore)
    THEN lastValidScore ELSE BestValidationScore

NewBestParameters(lastValidScore) ==
    IF earlyStopping /\ FloatGt(lastValidScore, BestValidationScore)
    THEN packedParameters ELSE bestParameters

NewBestLoss(lastLoss) == IF FloatLt(lastLoss, BestLoss) THEN lastLoss ELSE BestLoss

\* the loss fitStochastic records for the epoch
EpochLoss == FloatDivInt(accumulatedLoss, nSamples)

\* the non-convergence notice is logged after an epoch that did not break
NoticeLogged(nIter) == nIter = hp.MaxIter /\ hp.MaxIter > 1

\* the end of one epoch: diagnostics, updateNoImprovementCount,
\* iterationEnds, the stopping trigger, the notice, the loop step.
\* validScore is what mlp.score returns when it is called.
EpochEnd(validScore) ==
    /\ pc = "epochEnd"
    /\ NIter' = NIter + 1
    /\ Loss' = EpochLoss
    /\ t' = t + nSamples
    /\ LossCurve' = Append(LossCurve, EpochLoss)
    /\ epochsDone' = epochsDone + 1
    /\ IF earlyStopping /\ scorePanics
       THEN \* the panic leaves fitStochastic: nothing is restored
            /\ pc' = "idle"
            /\ result' = "panic"
            /\ UNCHANGED <<ValidationScores, BestValidationScore, BestLoss,
                           NoImprovementCount, optimizer, bestParameters, it, notices,
                           fitLog>>
       ELSE LET lastValidScore == IF earlyStopping THEN score(validScore) ELSE 0
                count == NewNoImprovementCount(lastValidScore, EpochLoss)
                opt1 == iterationEnds(optimizer, t + nSamples)
                trig == triggerStopping(opt1)
                triggered == count > hp.NIterNoChange
                stops == triggered /\ trig.stop
            IN /\ ValidationScores' = IF earlyStopping
                                      THEN Append(ValidationScores, lastValidScore)
                                      ELSE ValidationScores
               /\ BestValidationScore' = NewBestValidationScore(lastValidScore)
               /\ bestParameters' = NewBestParameters(lastValidScore)
               /\ BestLoss' = NewBestLoss(EpochLoss)
               /\ optimizer' = IF triggered THEN trig.opt ELSE opt1
               /\ NoImprovementCount' = IF triggered /\ ~trig.stop THEN 0 ELSE count
               /\ notices' = IF ~stops /\ NoticeLogged(NIter + 1)
                             THEN notices + 1 ELSE notices
               /\ it' = IF stops THEN it ELSE it + 1
               /\ pc' = IF stops \/ ~(it + 1 < hp.MaxIter) THEN "restore" ELSE "loop"
               /\ fitLog' = Append(fitLog, [score |-> lastValidScore, loss |-> EpochLoss,
                                            params |-> packedParameters,
                                            best |-> BestValidationScore,
                                            count |-> count, stopped |-> stops,
                                            order |-> X])
               /\ UNCHANGED result
    /\ UNCHANGED <<nonMlpVars, hpVars, LossFuncName, OutActivation, NOutputs,
                   packedParameters, lb, X, Y, yb, idx, nSamples, earlyStopping, testSize,
                   batch, accumulatedLoss, fitNo, paramVer>>

\* the parameters fitStochastic leaves in mlp.packedParameters
RestoredParameters == IF earlyStopping THEN bestParameters ELSE packedParameters

\* the tail of fitStochastic and the return of Fit
FitEnd ==
    /\ pc = "restore"
    /\ packedParameters' = RestoredParameters
    /\ LET r == RestoreOrder(<<idx, X, Y>>, nSamples, hp.Shuffle)
       IN idx' = r[1] /\ X' = r[2] /\ Y' = r[3]
    /\ pc' = "idle"
    /\ result' = "ok"
    /\ UNCHANGED <<nonMlpVars, hpVars, LossFuncName, OutActivation, NOutputs, NIter, t, Loss,
                   LossCurve, ValidationScores, BestValidationScore, BestLoss,
                   NoImprovementCount, optimizer, bestParameters, lb,
                   yb, nSamples, earlyStopping, testSize, it, batch, accumulatedLoss,
                   notices, fitNo, epochsDone, paramVer, fitLog>>

\* no label binarizer of its own is exercised beside the perceptron
LBOff ==
    /\ lbPc = "off"
    /\ NegLabel = 0
    /\ PosLabel = 1
    /\ Classes = <<>>
    /\ lbFitY = EmptyMatrix
    /\ lbY = EmptyMatrix
    /\ lbOut = EmptyMatrix
    /\ lbInv = EmptyMatrix

\* LossFuncName as the caller sets it before the first Fit
LossFuncNames == {"", "square_loss"}

\* batch losses backprop returns and validation scores the network reaches
LossInputs == IF earlyStopping THEN {Unit, NaN} ELSE {Unit, 2 * Unit, NaN, PosInf}

ScoreInputs == {-Unit, 0, Unit, 2 * Unit}

Init ==
    /\ \E h \in StoppingHPs \cup InvalidHPs, l \in LossFuncNames : MLPNew(h, l)
    /\ LBOff
    /\ GradOff
    /\ LbfgsOff
    /\ LoadOff
    /\ BufOff
    /\ AdamOff
    /\ LookupOff
    /\ ShufOff

Next ==
    \/ \E kind \in {"binary", "labels"} : FitBegin(2, kind)
    \/ SetParams
    \/ ShuffleEpoch
    \/ \E l \in LossInputs : Minibatch(l)
    \/ \E s \in ScoreInputs : EpochEnd(s)
    \/ FitEnd

Spec == Init /\ [][Next]_vars

\* momentum-SGD fits
InitSgd ==
    /\ \E h \in SgdHPs : MLPNew(h, "")
    /\ LBOff
    /\ GradOff
    /\ LbfgsOff
    /\ LoadOff
    /\ BufOff
    /\ AdamOff
    /\ LookupOff
    /\ ShufOff

SpecSgd == InitSgd /\ [][Next]_vars

\* fits of fresh regressors and classifiers on every kind of target
TargetKinds == {"binary", "multilabel", "onehot", "values"}

InitPairing ==
    /\ \E h \in DataHPs, l \in LossFuncNames : MLPNew(h, l)
    /\ LBOff
    /\ GradOff
    /\ LbfgsOff
    /\ LoadOff
    /\ BufOff
    /\ AdamOff
    /\ LookupOff
    /\ ShufOff

NextPairing ==
    \/ \E kind \in TargetKinds : FitBegin(2, kind)
    \/ ShuffleEpoch
    \/ Minibatch(Unit)
    \/ EpochEnd(Unit)
    \/ FitEnd

SpecPairing == InitPairing /\ [][NextPairing]_vars

\* the data path: shuffling, minibatches and the validation split, with one
\* loss and one score value
InitData ==
    /\ \E h \in DataHPs : MLPNew(h, "")
    /\ LBOff
    /\ GradOff
    /\ LbfgsOff
    /\ LoadOff
    /\ BufOff
    /\ AdamOff
    /\ LookupOff
    /\ ShufOff

NextData ==
    \/ \E n \in 2..MaxSamples : FitBegin(n, "binary")
    \/ SetParams
    \/ ShuffleEpoch
    \/ Minibatch(Unit)
    \/ EpochEnd(Unit)
    \/ FitEnd

SpecData == InitData /\ [][NextData]_vars

-----------------------------------------------------------------------------
(* backprop as a state machine *)

GradInit ==
    /\ gPc = "new"
    /\ net \in Nets
    /\ bp = NoBackprop
    /\ numLoss = <<>>
    /\ MLPNew(BaseHP, "")
    /\ LBOff
    /\ LbfgsOff
    /\ LoadOff
    /\ BufOff
    /\ AdamOff
    /\ LookupOff
    /\ ShufOff

Backprop ==
    /\ gPc = "new"
    /\ bp' = backprop(net)
    /\ gPc' = "backprop"
    /\ UNCHANGED <<net, numLoss, nonGradVars>>

\* the losses backprop returns with one parameter moved one step down and
\* one step up
CentralDifference ==
    /\ gPc = "backprop"
    /\ numLoss' = [p \in ParamNames |->
                    <<backprop(Moved(net, p, -1)).loss, backprop(Moved(net, p, 1)).loss>>]
    /\ gPc' = "checked"
    /\ UNCHANGED <<net, bp, nonGradVars>>

GradNext == Backprop \/ CentralDifference

SpecGrad == GradInit /\ [][GradNext]_vars

-----------------------------------------------------------------------------
(* fitLbfgs: the cost and gradient callbacks under the minimizer's workers *)
(*                                                                         *)
(* A point w is a number >= 1; the content of packedParameters after the   *)
(* copy of w is w, the gradient backprop computes from parameters p is p,  *)
(* and its loss LossAt(p).  optimize.Minimize is outside the repository:   *)
(* it is given Settings.Concurrent workers, each of which evaluates Func   *)
(* and then Grad at the point it was handed.                               *)

LossAt(p) == p * Unit

\* the state fit leaves when it calls fitLbfgs on a fresh model
InitLbfgs ==
    /\ \E m \in 1..MaxIterBound : \E c \in 1..NumWorkers :
        /\ hp = [BaseHP EXCEPT !.Solver = "lbfgs", !.MaxIter = m, !.BatchSize = 2]
        /\ Concurrent = c
        /\ wPc = [k \in 1..c |-> "idle"]
        /\ wW = [k \in 1..c |-> 0]
        /\ wLoss = [k \in 1..c |-> 0]
    /\ mu = 0
    /\ packedGrads = 0
    /\ evalNo = 0
    /\ handed = {}
    /\ resX = 0
    /\ LossFuncName = "binary_log_loss"
    /\ OutActivation = "logistic"
    /\ NOutputs = 1
    /\ NIter = 0
    /\ t = 0
    /\ Loss = 0
    /\ LossCurve = <<>>
    /\ ValidationScores = <<>>
    /\ BestValidationScore = 0
    /\ BestLoss = PosInf
    /\ NoImprovementCount = 0
    /\ optimizer = NilOptimizer
    /\ packedParameters = ZeroParams
    /\ bestParameters = NilParams
    /\ lb = NilLB
    /\ pc = "lbfgs"
    /\ X = <<1, 2>>
    /\ Y = <<1, 2>>
    /\ yb = Target("binary", 2)
    /\ idx = <<>>
    /\ nSamples = 2
    /\ earlyStopping = FALSE
    /\ testSize = 0
    /\ it = 0
    /\ batch = <<0, 0>>
    /\ accumulatedLoss = 0
    /\ result = "none"
    /\ notices = 0
    /\ fitNo = 1
    /\ epochsDone = 0
    /\ paramVer = 0
    /\ fitLog = <<>>
    /\ LBOff
    /\ GradOff
    /\ LoadOff
    /\ BufOff
    /\ AdamOff
    /\ LookupOff
    /\ ShufOff

lbfgsRest == <<lbVars, gradVars, loadVars, bufVars, adamVars, lookupVars, shufVars, hp, LossFuncName, OutActivation, NOutputs, NIter, t,
               ValidationScores, BestValidationScore, NoImprovementCount, optimizer,
               bestParameters, lb, localVars, histVars, Concurrent, resX>>

\* the minimizer hands the next point to an idle worker (at most
\* FuncEvaluations = MaxIter points)
Dispatch(k) ==
    /\ pc = "lbfgs"
    /\ wPc[k] = "idle"
    /\ evalNo < hp.MaxIter
    /\ evalNo' = evalNo + 1
    /\ wW' = [wW EXCEPT ![k] = evalNo + 1]
    /\ wPc' = [wPc EXCEPT ![k] = "func"]
    /\ UNCHANGED <<lbfgsRest, wLoss, mu, packedGrads, handed, packedParameters, Loss,
                   LossCurve, BestLoss>>

\* Func: the copy of w into mlp.packedParameters
FuncCopy(k) ==
    /\ wPc[k] = "func"
    /\ packedParameters' = wW[k]
    /\ wPc' = [wPc EXCEPT ![k] = "backprop"]
    /\ UNCHANGED <<lbfgsRest, wW, wLoss, mu, packedGrads, evalNo, handed, Loss, LossCurve,
                   BestLoss>>

\* Func: backprop, from the parameters now in the buffer into packedGrads
FuncBackprop(k) ==
    /\ wPc[k] = "backprop"
    /\ packedGrads' = packedParameters
    /\ wLoss' = [wLoss EXCEPT ![k] = LossAt(packedParameters)]
    /\ wPc' = [wPc EXCEPT ![k] = "lock"]
    /\ UNCHANGED <<lbfgsRest, wW, mu, evalNo, handed, packedParameters, Loss, LossCurve,
                   BestLoss>>

\* Func: mu.Lock()
FuncLock(k) ==
    /\ wPc[k] = "lock"
    /\ mu = 0
    /\ mu' = k
    /\ wPc' = [wPc EXCEPT ![k] = "locked"]
    /\ UNCHANGED <<lbfgsRest, wW, wLoss, packedGrads, evalNo, handed, packedParameters,
                   Loss, LossCurve, BestLoss>>

\* Func: the diagnostics under the mutex, mu.Unlock() and the return
FuncRecord(k) ==
    /\ wPc[k] = "locked"
    /\ Loss' = wLoss[k]
    /\ LossCurve' = Append(LossCurve, wLoss[k])
    /\ BestLoss' = IF FloatGt(BestLoss, wLoss[k]) THEN wLoss[k] ELSE BestLoss
    /\ mu' = 0
    /\ wPc' = [wPc EXCEPT ![k] = "grad"]
    /\ UNCHANGED <<lbfgsRest, wW, wLoss, packedGrads, evalNo, handed, packedParameters>>

\* Grad: the copy of packedGrads into g, handed back with w
Grad(k) ==
    /\ wPc[k] = "grad"
    /\ handed' = handed \cup {[w |-> wW[k], g |-> packedGrads, loss |-> wLoss[k]]}
    /\ wPc' = [wPc EXCEPT ![k] = "idle"]
    /\ UNCHANGED <<lbfgsRest, wW, wLoss, mu, packedGrads, evalNo, packedParameters, Loss,
                   LossCurve, BestLoss>>

\* the points the minimizer may return as res.X: a point handed back with
\* the least loss of all points handed back
BestLocations == {e.w : e \in {d \in handed : \A f \in handed : d.loss <= f.loss}}

\* optimize.Minimize returns res (after at least one evaluation, with no
\* evaluation under way: on convergence or at the evaluation limit), and
\* fitLbfgs checks err and res.Status and returns
MinimizeReturns ==
    /\ pc = "lbfgs"
    /\ handed # {}
    /\ \A k \in 1..Concurrent : wPc[k] = "idle"
    /\ resX' \in BestLocations
    /\ pc' = "idle"
    /\ result' = "ok"
    /\ UNCHANGED <<lbVars, gradVars, loadVars, bufVars, adamVars, lookupVars, shufVars, hpVars,
                   outVars,
                   X, Y, yb, idx, nSamples, earlyStopping, testSize, it, batch,
                   accumulatedLoss, notices, fitNo, epochsDone, paramVer, fitLog,
                   Concurrent, wPc, wW, wLoss, mu, packedGrads, evalNo, handed>>

NextLbfgs ==
    \/ MinimizeReturns
    \/ \E k \in 1..Concurrent : Dispatch(k)
    \/ \E k \in 1..Concurrent : FuncCopy(k)
    \/ \E k \in 1..Concurrent : FuncBackprop(k)
    \/ \E k \in 1..Concurrent : FuncLock(k)
    \/ \E k \in 1..Concurrent : FuncRecord(k)
    \/ \E k \in 1..Concurrent : Grad(k)

SpecLbfgs == InitLbfgs /\ [][NextLbfgs]_vars

-----------------------------------------------------------------------------
(* Unmarshal of a record with weight blocks, and the layer widths of a     *)
(* following predictProbas                                                 *)

\* the shapes of the blocks of coefs_ of a record written from a model with
\* the layer widths u
BlocksOf(u) == [i \in 1..(Len(u) - 1) |-> [Rows |-> u[i], Cols |-> u[i + 1]]]

LayerWidths == UNION {[1..n -> 1..MaxWidth] : n \in 2..(MaxBlocks + 1)}

\* the local layerUnits of Unmarshal
UnmarshalLayerUnits(b) ==
    [i \in 1..(Len(b) + 1) |->
        IF i = 1 THEN b[1].Rows
        ELSE IF i = Len(b) + 1 THEN b[Len(b)].Cols
        ELSE b[i - 1].Cols]

\* layerUnits of predictProbas for an input of nFeatures columns
PredictLayerUnits(nFeatures) == <<nFeatures>> \o HiddenLayerSizes \o <<NOutputs>>

InitLoad ==
    /\ ldPc = "record"
    /\ \E u \in LayerWidths : blocks = BlocksOf(u)
    /\ NLayers = 0
    /\ HiddenLayerSizes = <<MaxWidth>>
    /\ predictUnits = <<>>
    /\ MLPNew(BaseHP, "")
    /\ LBOff
    /\ GradOff
    /\ LbfgsOff
    /\ BufOff
    /\ AdamOff
    /\ LookupOff
    /\ ShufOff

\* Unmarshal of the record: the topology fields and initialize
Unmarshal ==
    /\ ldPc = "record"
    /\ NLayers' = Len(UnmarshalLayerUnits(blocks))
    /\ HiddenLayerSizes' = [i \in 1..(Len(blocks) + 1 - 2) |-> 0]
    /\ NOutputs' = blocks[Len(blocks)].Cols
    /\ NIter' = 0
    /\ t' = 0
    /\ OutActivation' = IF blocks[Len(blocks)].Cols > 1 THEN "softmax" ELSE "logistic"
    /\ LossFuncName' = IF blocks[Len(blocks)].Cols > 1 THEN "log_loss" ELSE "binary_log_loss"
    /\ packedParameters' = paramVer + 1
    /\ paramVer' = paramVer + 1
    /\ BestLoss' = PosInf
    /\ ldPc' = "loaded"
    /\ UNCHANGED <<lbVars, gradVars, lbfgsVars, bufVars, adamVars, lookupVars, shufVars, blocks,
                   predictUnits, hp, Loss,
                   LossCurve,
                   ValidationScores, BestValidationScore, NoImprovementCount, optimizer,
                   bestParameters, lb, localVars, result, notices, fitNo, epochsDone,
                   fitLog>>

\* Predict on an input with as many columns as block 0 has rows
PredictLoaded ==
    /\ ldPc = "loaded"
    /\ predictUnits' = PredictLayerUnits(blocks[1].Rows)
    /\ ldPc' = "predicted"
    /\ UNCHANGED <<lbVars, gradVars, lbfgsVars, bufVars, adamVars, lookupVars, shufVars, mlpVars,
                   blocks,
                   NLayers,
                   HiddenLayerSizes>>

NextLoad == Unmarshal \/ PredictLoaded

SpecLoad == InitLoad /\ [][NextLoad]_vars

-----------------------------------------------------------------------------
(* The label binarizer as a state machine *)

\* the (NegLabel, PosLabel) pairs given to NewLabelBinarizer64
CodePairs == {<<0, 1>>, <<-1, 1>>, <<1, 1>>}

LabelValues == 0..MaxLabel

LabelMatrices ==
    UNION {Matrices(r, c, LabelValues) : r \in 1..MaxRows, c \in 1..MaxCols}

\* NewLabelBinarizer64(NegLabel, PosLabel)
LBInit ==
    /\ lbPc = "new"
    /\ \E p \in CodePairs : NegLabel = p[1] /\ PosLabel = p[2]
    /\ Classes = <<>>
    /\ lbFitY = EmptyMatrix
    /\ lbY = EmptyMatrix
    /\ lbOut = EmptyMatrix
    /\ lbInv = EmptyMatrix
    /\ MLPNew(BaseHP, "")
    /\ GradOff
    /\ LbfgsOff
    /\ LoadOff
    /\ BufOff
    /\ AdamOff
    /\ LookupOff
    /\ ShufOff

\* LabelBinarizer64.Fit on the label matrix y
LBFitOf(y) ==
    /\ lbPc \in {"new", "fitted"}
    /\ lbFitY' = y
    /\ PosLabel' = FitPosLabel(NegLabel, PosLabel)
    /\ Classes' = FitClasses(y)
    /\ lbPc' = "fitted"
    /\ lbY' = EmptyMatrix
    /\ lbOut' = EmptyMatrix
    /\ lbInv' = EmptyMatrix
    /\ UNCHANGED <<NegLabel, nonLbVars>>

LBFit == \E y \in LabelMatrices : LBFitOf(y)

LBTransform ==
    /\ lbPc = "fitted"
    /\ \E y \in LabelMatrices :
        /\ y.Cols = Len(Classes)
        /\ lbY' = y
        /\ lbOut' = Transform(Classes, NegLabel, PosLabel, y)
    /\ lbPc' = "transformed"
    /\ lbInv' = EmptyMatrix
    /\ UNCHANGED <<NegLabel, PosLabel, Classes, lbFitY, nonLbVars>>

LBInverseTransform ==
    /\ lbPc = "transformed"
    /\ LET r == InverseTransform(Classes, lbOut)
       IN /\ lbInv' = r.Y
          /\ lbPc' = IF r.panicked THEN "panic" ELSE "inverted"
    /\ UNCHANGED <<NegLabel, PosLabel, Classes, lbFitY, lbY, lbOut, nonLbVars>>

LBNext == LBFit \/ LBTransform \/ LBInverseTransform

SpecLB == LBInit /\ [][LBNext]_vars

-----------------------------------------------------------------------------
(* Properties of the label binarizer *)

\* C1: label binarizer round trip.  After Fit(labels), for a label matrix
\* of one or more columns of finite values,
\* InverseTransform(Transform(labels)) returns without failing a matrix
\* equal to labels entry for entry.
C1_RoundTrip ==
    (lbPc \in {"inverted", "panic"} /\ lbY = lbFitY)
        => (lbPc = "inverted" /\ lbInv = lbY)

\* label matrices of float64 values, NaN among them
FloatLabelMatrices ==
    UNION {Matrices(r, c, LabelValues \cup {NaN}) : r \in 1..MaxRows, c \in 1..MaxCols}

LBFitFloat == \E y \in FloatLabelMatrices : LBFitOf(y)

\* a binarizer fitted, and fitted again, on float64 labels
SpecLBFit == LBInit /\ [][LBFitFloat]_vars

\* the values of label column j (0-based) of the fitted matrix
ColumnValues(j) == {At(lbFitY, i, j) : i \in 0..(lbFitY.Rows - 1)}

\* C19: class ordering.  After Fit the class list of every label column
\* holds each distinct value of the column exactly once and nothing else,
\* the non-NaN values ascending and a NaN after all non-NaN values.
C19_ClassOrdering ==
    lbPc = "fitted" =>
        \A j \in 1..lbFitY.Cols :
            /\ \A v \in ColumnValues(j - 1) :
                Cardinality({k \in 1..Len(Classes[j]) : Classes[j][k] = v}) = 1
            /\ \A k \in 1..Len(Classes[j]) : Classes[j][k] \in ColumnValues(j - 1)
            /\ \A k \in 1..Len(Classes[j]) : \A l \in 1..Len(Classes[j]) :
                k < l =>
                    /\ ~(IsNaN(Classes[j][k]) /\ ~IsNaN(Classes[j][l]))
                    /\ (~IsNaN(Classes[j][k]) /\ ~IsNaN(Classes[j][l]))
                        => Classes[j][k] < Classes[j][l]

\* C9: label binarizer encoding.  In every row, in the class block of every
\* label column, Transform writes the positive code in the column of the
\* matching fitted class and the negative code in every other column of the
\* block (so an unseen value gives a block of negative codes only).
C9_TransformEncoding ==
    lbPc = "transformed" =>
        \A i \in 0..(lbY.Rows - 1) : \A j \in 0..(lbY.Cols - 1) :
            \A c \in 0..(Len(Classes[j + 1]) - 1) :
                At(lbOut, i, BaseCol(Classes, j) + c) =
                    IF FloatEq(Classes[j + 1][c + 1], At(lbY, i, j))
                    THEN PosLabel ELSE NegLabel

-----------------------------------------------------------------------------
(* Properties of the stochastic fit *)

\* fitLog is the record of the epochs of the fit under way or just ended:
\* for each epoch that reached its stopping check, the validation score,
\* the epoch loss, the parameters at the end of the epoch, the best score
\* before the epoch, the counter after updateNoImprovementCount, whether the
\* trigger ended training, and the row order during the epoch.
Identity(n) == [k \in 1..n |-> k]

FitReturned == pc = "idle" /\ result = "ok"

\* C2: shuffle reversibility.  When a stochastic fit with Shuffle returns,
\* the rows of the input matrix and of the target matrix are in their
\* pre-fit order, and every input row is paired with its own target row.
C2_ShuffleReversible ==
    (FitReturned /\ hp.Shuffle) =>
        (X = Identity(nSamples) /\ Y = Identity(nSamples))

\* a fit with Shuffle has returned after two epochs, in one of which the
\* rows were out of order
C2_Witness ==
    /\ FitReturned /\ hp.Shuffle /\ Len(fitLog) >= 2
    /\ \E k \in 1..Len(fitLog) : fitLog[k].order # Identity(nSamples)

\* C3: early-stopping restore.  When a fit with early stopping returns, the
\* parameter buffer holds the parameters of the end of an epoch whose
\* validation score is the maximum of the fit's scores, whatever the scores.
C3_RestoresBest ==
    (FitReturned /\ earlyStopping) =>
        \E k \in 1..Len(fitLog) :
            /\ packedParameters = fitLog[k].params
            /\ \A j \in 1..Len(fitLog) : ~FloatGt(fitLog[j].score, fitLog[k].score)

\* epoch k of the fit did not improve on the best score by more than Tol
NoGain(k) == ~FloatGt(fitLog[k].score, FloatAdd(fitLog[k].best, hp.Tol))

\* C4: early-stopping halting bound.  With early stopping, whatever the
\* solver and schedule, training has halted by the end of any
\* NIterNoChange+1 consecutive epochs that did not improve on the best
\* score by more than Tol.
C4_HaltingBound ==
    earlyStopping =>
        \A k \in 1..Len(fitLog) :
            (k > hp.NIterNoChange /\ \A j \in (k - hp.NIterNoChange)..k : NoGain(j))
                => fitLog[k].stopped

\* C5: numerical instability is fatal.  A NaN or +Inf loss is never
\* appended to the loss history.
C5_UnstableLossFatal ==
    \A k \in 1..Len(LossCurve) : ~IsNaN(LossCurve[k]) /\ LossCurve[k] # PosInf

\* C6: invalid hyperparameters abort before any fit work.  A Fit of a model
\* whose hyperparameters fail validation leaves the hyperparameters, the
\* parameters, the diagnostics, the optimizer and the label binarizer as
\* they were.
C6_InvalidLeavesState ==
    [][(pc = "idle" /\ fitNo' = fitNo + 1 /\ ~validateHyperparameters(hp))
        => (result' = "panic" /\ UNCHANGED <<hpVars, outVars>>)]_vars

\* the no-improvement counter exceeded NIterNoChange at the end of epoch k
Triggered(k) == fitLog[k].count > hp.NIterNoChange

\* C7 (as stated): with adam the trigger never ends training.
C7_AdamNeverStops ==
    optimizer.kind = "adam" => \A k \in 1..Len(fitLog) : ~fitLog[k].stopped

\* C7 (amended): with adam, training ends at the end of exactly those epochs
\* at which the counter exceeds NIterNoChange, and a fit that leaves the
\* epoch loop was ended by the trigger or has run MaxIter epochs.
C7_AdamStopsOnTrigger ==
    optimizer.kind = "adam" =>
        /\ \A k \in 1..Len(fitLog) : fitLog[k].stopped <=> Triggered(k)
        /\ pc = "restore" =>
            (fitLog[Len(fitLog)].stopped \/ Len(fitLog) = hp.MaxIter)

\* an adam fit was ended by the trigger before MaxIter epochs
C7_Witness ==
    /\ optimizer.kind = "adam" /\ pc = "restore"
    /\ fitLog[Len(fitLog)].stopped
    /\ Len(fitLog) < hp.MaxIter

\* C8: non-convergence notice.  A fit that has run its MaxIter-th epoch
\* without the trigger ending training has logged the notice exactly once,
\* for every MaxIter >= 1 and for warm starts too.
C8_NoticeOnce ==
    (pc = "restore" /\ it = hp.MaxIter) => notices = 1

-----------------------------------------------------------------------------
(* Properties of backprop *)

\* the gradient backprop wrote for parameter p
GradOf(p) ==
    CASE p = "w1" -> bp.coefGrads[1]
      [] p = "b1" -> bp.interceptGrads[1]
      [] p = "w2" -> bp.coefGrads[2]
      [] p = "b2" -> bp.interceptGrads[2]

PreActivation(n) == n.x * n.w1 + n.b1

Residual(n) == RatSub(forwardPass(n)[3], RatInt(n.y))

\* the loss is a polynomial of degree at most 2 in p between p-1 and p+1,
\* so that its central difference is its derivative
Quadratic(p) ==
    \/ p \in {"w2", "b2"}
    \/ net.Activation = "identity"
    \/ /\ net.Activation = "relu"
       /\ \/ \A s \in {-1, 0, 1} : PreActivation(Moved(net, p, s)) > 0
          \/ \A s \in {-1, 0, 1} : PreActivation(Moved(net, p, s)) < 0

\* the loss is monotone in p between p-1 and p+1: the residual keeps its
\* sign, and the hidden unit is monotone in its pre-activation
Monotone(p) ==
    /\ net.Activation \in {"logistic", "tanh"}
    /\ \E sg \in {-1, 1} :
        \A s \in {-1, 0, 1} : RatSign(Residual(Moved(net, p, s))) = sg

GradientAgrees(p) ==
    IF Quadratic(p)
    THEN RatSub(numLoss[p][2], numLoss[p][1]) = RatMulInt(GradOf(p), 2)
    ELSE Monotone(p) =>
            RatSign(RatSub(numLoss[p][2], numLoss[p][1])) = RatSign(GradOf(p))

\* C10: gradient correctness.  For every hidden activation, with and
\* without L2 regularization, the gradient backprop writes for every weight
\* and bias agrees with the central difference of the loss backprop
\* returns: it equals it where the loss is quadratic in the parameter, and
\* has its sign where the loss is monotone in the parameter.
C10_GradientMatchesLoss ==
    gPc = "checked" => \A p \in ParamNames : GradientAgrees(p)

-----------------------------------------------------------------------------
(* Properties of batch mode *)

\* worker k is inside a callback evaluation
Evaluating(k) == wPc[k] # "idle"

\* C11: single-flight batch-mode callbacks.  No two callback evaluations
\* are under way at once on the shared buffers, and every gradient handed
\* back for a point w is the gradient computed from w, with the loss of w.
C11_SingleFlight ==
    pc = "lbfgs" =>
        /\ \A j \in 1..Concurrent : \A k \in 1..Concurrent :
            (Evaluating(j) /\ Evaluating(k)) => j = k
        /\ \A e \in handed : e.g = e.w /\ e.loss = LossAt(e.w)

-----------------------------------------------------------------------------
(* Properties of model loading *)

\* the layer widths the blocks of the record stand for
RecordTopology ==
    <<blocks[1].Rows>> \o [i \in 1..Len(blocks) |-> blocks[i].Cols]

\* C12: model loading reconstructs the topology.  After Unmarshal, NLayers,
\* HiddenLayerSizes and NOutputs are the widths of the record's blocks, and
\* a following Predict builds its layer buffers with those widths.
C12_LoadedTopology ==
    /\ ldPc \in {"loaded", "predicted"} =>
        /\ NLayers = Len(RecordTopology)
        /\ HiddenLayerSizes = [i \in 1..(Len(blocks) - 1) |-> blocks[i].Cols]
        /\ NOutputs = blocks[Len(blocks)].Cols
    /\ ldPc = "predicted" => predictUnits = RecordTopology

-----------------------------------------------------------------------------
(* Properties of the stopping policy *)

\* an epoch ends without a panic of the scoring
EpochEnds == pc = "epochEnd" /\ pc' # "idle"

\* the epoch that ends improves on the best score (early stopping) or on
\* the best loss (otherwise) by more than Tol
Improves ==
    IF earlyStopping
    THEN FloatGt(fitLog'[Len(fitLog')].score, FloatAdd(BestValidationScore, hp.Tol))
    ELSE FloatLt(Loss', FloatSub(BestLoss, hp.Tol))

\* C13: improvement rule with its tie edge.  updateNoImprovementCount sets
\* the counter to 0 exactly when the epoch improves by more than Tol and
\* adds 1 to it otherwise, so that a score equal to bestScore + Tol, or a
\* loss equal to bestLoss - Tol, counts as no improvement.
C13_ImprovementRule ==
    [][EpochEnds =>
        fitLog'[Len(fitLog')].count =
            IF Improves THEN 0 ELSE NoImprovementCount + 1]_vars

\* the counter after updateNoImprovementCount of the epoch that ends
CountAfterUpdate == fitLog'[Len(fitLog')].count

TrainingStops == fitLog'[Len(fitLog')].stopped /\ pc' = "restore"

\* C14: stopping trigger protocol of momentum-SGD.  At the end of an epoch,
\* when the counter exceeds NIterNoChange a non-adaptive schedule stops
\* training at once, as does an adaptive one whose rate is <= 1e-6, while
\* an adaptive one with a larger rate divides the rate by 5, resets the
\* counter to 0 and goes on (to the next epoch, or out of the loop at
\* MaxIter); when the counter does not exceed NIterNoChange training is not
\* stopped and an adaptive rate is left as it is.  So the adaptive rate
\* strictly decreases from trigger to trigger until it is <= 1e-6.
C14_SgdTriggerProtocol ==
    [][(EpochEnds /\ optimizer.kind = "sgd") =>
        IF CountAfterUpdate > hp.NIterNoChange
        THEN IF optimizer.LRSchedule # "adaptive" \/ optimizer.LearningRate.num <= 1
             THEN TrainingStops
             ELSE /\ ~fitLog'[Len(fitLog')].stopped
                  /\ optimizer'.LearningRate.num * 5 = optimizer.LearningRate.num
                  /\ optimizer'.LearningRate.num < optimizer.LearningRate.num
                  /\ NoImprovementCount' = 0
                  /\ pc' = IF it + 1 < hp.MaxIter THEN "loop" ELSE "restore"
        ELSE /\ ~fitLog'[Len(fitLog')].stopped
             /\ NoImprovementCount' = CountAfterUpdate
             /\ optimizer.LRSchedule = "adaptive" => optimizer' = optimizer]_vars

\* an adaptive fit goes on to a further epoch after a trigger divided its
\* rate by 5
C14_Witness ==
    /\ optimizer.kind = "sgd" /\ optimizer.LRSchedule = "adaptive"
    /\ optimizer.LearningRate.num * 5 = optimizer.LearningRateInit
    /\ pc = "loop" /\ it >= 1 /\ NoImprovementCount = 0
    /\ fitLog[Len(fitLog)].count > hp.NIterNoChange

(* Properties of the minibatch loop *)

\* the number of rows fitStochastic trains on
TrainRows == nSamples - testSize

\* C15: epoch loss.  The loss recorded for an epoch is the sum over its
\* minibatches of batch loss times batch rows, divided by the number of
\* training rows, nSamples minus the size of the validation split: times
\* the training rows it gives the accumulated sum back, with early stopping
\* and without.
C15_EpochLoss ==
    [][pc = "epochEnd" => FloatMulInt(Loss', TrainRows) = accumulatedLoss]_vars

\* C16: minibatch partition.  Every epoch starts its minibatches at row 0;
\* each minibatch is the non-empty row range from where the previous one
\* ended, inside the training rows, of BatchSize rows unless it is the last,
\* which may be shorter; the loop ends exactly when the training rows
\* [0, nSamples - validation size) are covered; and each minibatch makes one
\* updateParams call.
C16_MinibatchPartition ==
    [][/\ pc = "loop" => batch'[1] = 0
       /\ pc = "batch" =>
            /\ batch[1] < batch'[1] /\ batch'[1] <= TrainRows
            /\ \/ batch'[1] - batch[1] = hp.BatchSize
               \/ batch'[1] = TrainRows /\ batch'[1] - batch[1] < hp.BatchSize
            /\ (pc' = "epochEnd") <=> (batch'[1] = TrainRows)
            /\ pc' \in {"batch", "epochEnd"}
            /\ optimizer'.steps = optimizer.steps + 1]_vars

\* an epoch of two minibatches, the second shorter than BatchSize
C16_Witness ==
    /\ pc = "epochEnd" /\ batch[1] = TrainRows
    /\ TrainRows > hp.BatchSize /\ TrainRows % hp.BatchSize # 0
    /\ optimizer.steps = 2

-----------------------------------------------------------------------------
(* The work buffers of fit during one minibatch sweep *)

\* the sweeps followed: rows, validation rows, clipped BatchSize, and the
\* number of layers (length of layerUnits)
Sweeps ==
    {s \in [nSamples : 1..MaxSamples, testSize : 0..(MaxSamples - 1),
            BatchSize : 1..MaxSamples, layers : 2..(MaxHidden + 2),
            batch : {<<0, 0>>}] :
        s.testSize < s.nSamples /\ s.BatchSize <= s.nSamples}

\* H - y of one row of the output layer
Residuals == {1, 2}

\* fit: activations[0] = X, and one buffer of BatchSize rows per further
\* layer
AllocatedActivations(s) ==
    [i \in 1..s.layers |-> [Rows |-> IF i = 1 THEN s.nSamples ELSE s.BatchSize]]

\* fit: the delta buffer of the last layer, BatchSize rows of zeros
AllocatedDeltas(s) == [r \in 1..s.BatchSize |-> 0]

\* fitStochastic: activations[0] = Xbatch, then a.Rows = Xbatch.Rows on the
\* loop variable a of "for _, a := range activations", a copy of the element
SetBatchRows(acts, rows) == [acts EXCEPT ![1] = [Rows |-> rows]]

\* LossFunctions64["square_loss"](y, h): the sum runs over the rows of y, the
\* divisor is h.Rows
SquareLoss(res, hRows) == Rat(SeqSum([k \in 1..Len(res) |-> res[k] * res[k]]), 2 * hRows)

\* backprop: deltas[last] = H - y, written for the rows of y
WrittenDeltas(d, res) == [r \in 1..Len(d) |-> IF r <= Len(res) THEN res[r] ELSE d[r]]

\* matRowMean64 over one column
matRowMean64(a) == Rat(SeqSum(a), Len(a))

InitBuf ==
    /\ bfPc = "fit"
    /\ sweep \in Sweeps
    /\ activations = <<>>
    /\ deltas = <<>>
    /\ bufLoss = RatInt(0)
    /\ interceptGrads = RatInt(0)
    /\ MLPNew(BaseHP, "")
    /\ LBOff
    /\ GradOff
    /\ LbfgsOff
    /\ LoadOff
    /\ AdamOff
    /\ LookupOff
    /\ ShufOff

\* fit allocates the work buffers and fitStochastic enters the minibatch loop
AllocateBuffers ==
    /\ bfPc = "fit"
    /\ activations' = AllocatedActivations(sweep)
    /\ deltas' = AllocatedDeltas(sweep)
    /\ sweep' = [sweep EXCEPT !.batch = <<0, sweep.BatchSize>>]
    /\ bfPc' = "loop"
    /\ UNCHANGED <<bufLoss, interceptGrads, nonBufVars>>

\* the head of the loop body: the minibatch is sliced and the row counts set
SliceBatch ==
    /\ bfPc = "loop"
    /\ LET trainRows == sweep.nSamples - sweep.testSize
           b1 == IF sweep.batch[2] > trainRows THEN trainRows ELSE sweep.batch[2]
       IN /\ sweep' = [sweep EXCEPT !.batch = <<sweep.batch[1], b1>>]
          /\ activations' = SetBatchRows(activations, b1 - sweep.batch[1])
    /\ bfPc' = "backprop"
    /\ UNCHANGED <<deltas, bufLoss, interceptGrads, nonBufVars>>

\* backprop of the active minibatch, res the residuals of its rows
BackpropBatch(res) ==
    /\ bfPc = "backprop"
    /\ Len(res) = sweep.batch[2] - sweep.batch[1]
    /\ bufLoss' = SquareLoss(res, activations[Len(activations)].Rows)
    /\ deltas' = WrittenDeltas(deltas, res)
    /\ interceptGrads' = matRowMean64(WrittenDeltas(deltas, res))
    /\ bfPc' = "update"
    /\ UNCHANGED <<sweep, activations, nonBufVars>>

\* updateParams and the step of the loop
NextBatch ==
    /\ bfPc = "update"
    /\ sweep' = [sweep EXCEPT !.batch = <<sweep.batch[2], sweep.batch[2] + sweep.BatchSize>>]
    /\ bfPc' = IF sweep.batch[2] < sweep.nSamples - sweep.testSize THEN "loop" ELSE "done"
    /\ UNCHANGED <<activations, deltas, bufLoss, interceptGrads, nonBufVars>>

NextBuf ==
    \/ AllocateBuffers
    \/ SliceBatch
    \/ \E k \in 1..MaxSamples : \E res \in [1..k -> Residuals] : BackpropBatch(res)
    \/ NextBatch

SpecBuf == InitBuf /\ [][NextBuf]_vars

\* the rows of the active minibatch
ActiveRows == sweep.batch[2] - sweep.batch[1]

\* C17: buffer row contraction.  At every backprop call of the sweep every
\* activation buffer has as many rows as the active minibatch, the final
\* shorter one included; the batch loss is the sum of the rows' losses
\* divided by the active rows, and the bias gradient the mean of the active
\* rows' deltas.
C17_BufferRows ==
    bfPc = "update" =>
        /\ \A i \in 1..Len(activations) : activations[i].Rows = ActiveRows
        /\ bufLoss = SquareLoss(SubSeq(deltas, 1, ActiveRows), ActiveRows)
        /\ interceptGrads = matRowMean64(SubSeq(deltas, 1, ActiveRows))

-----------------------------------------------------------------------------
(* AdamOptimizer64.updateParams *)

\* values of Beta1 and Beta2 that validateHyperparameters accepts
Betas == {Rat(0, 1), Rat(1, 4), Rat(1, 2), Rat(3, 4)}

RatPow(b, k) ==
    LET RECURSIVE P(_)
        P(j) == IF j = 0 THEN RatInt(1) ELSE RatMul(b, P(j - 1))
    IN P(k)

\* the loop of updateParams over the first k parameters: beta1t and beta2t
\* are multiplied inside the loop, and the LearningRate of parameter k is
\* computed from their values at that point
AdamLoop(o, k) ==
    LET RECURSIVE L(_)
        L(j) ==
            IF j = 0
            THEN [beta1t |-> IF o.t = 0 THEN RatInt(1) ELSE o.beta1t,
                  beta2t |-> IF o.t = 0 THEN RatInt(1) ELSE o.beta2t,
                  used |-> <<>>]
            ELSE LET p == L(j - 1)
                     b1 == RatMul(p.beta1t, o.Beta1)
                     b2 == RatMul(p.beta2t, o.Beta2)
                 IN [beta1t |-> b1, beta2t |-> b2,
                     used |-> Append(p.used, [beta1t |-> b1, beta2t |-> b2])]
    IN L(k)

InitAdam ==
    /\ adPc = "new"
    /\ \E b1 \in Betas : \E b2 \in Betas :
        adam = [Beta1 |-> b1, Beta2 |-> b2, t |-> 0,
                beta1t |-> RatInt(0), beta2t |-> RatInt(0)]
    /\ nParams \in 1..MaxParams
    /\ corrections = <<>>
    /\ MLPNew(BaseHP, "")
    /\ LBOff
    /\ GradOff
    /\ LbfgsOff
    /\ LoadOff
    /\ BufOff
    /\ LookupOff
    /\ ShufOff

\* one call of updateParams on a gradient buffer of nParams values
AdamUpdateParams ==
    /\ adPc \in {"new", "stepped"}
    /\ adam.t < MaxSteps
    /\ LET r == AdamLoop(adam, nParams)
       IN /\ adam' = [adam EXCEPT !.t = adam.t + 1, !.beta1t = r.beta1t,
                                  !.beta2t = r.beta2t]
          /\ corrections' = r.used
    /\ adPc' = "stepped"
    /\ UNCHANGED <<nParams, nonAdamVars>>

NextAdam == AdamUpdateParams

SpecAdam == InitAdam /\ [][NextAdam]_vars

\* C18: Adam bias correction advances once per step.  After the t-th call
\* of updateParams (t >= 1), whatever the length of the parameter buffer,
\* the running products are Beta1^t and Beta2^t, and the LearningRate of
\* every parameter's update in that call is computed from these two values,
\* so that it is LearningRateInit * sqrt(1 - Beta2^t) / (1 - Beta1^t) for all.
C18_AdamBiasCorrection ==
    adPc = "stepped" =>
        /\ adam.beta1t = RatPow(adam.Beta1, adam.t)
        /\ adam.beta2t = RatPow(adam.Beta2, adam.t)
        /\ \A i \in 1..Len(corrections) :
            corrections[i] = [beta1t |-> RatPow(adam.Beta1, adam.t),
                              beta2t |-> RatPow(adam.Beta2, adam.t)]

-----------------------------------------------------------------------------
(* Properties of initialize *)

\* what the target matrix of the fit under way is: regression targets (some
\* value is not 0 or 1), one 0/1 column, 0/1 columns with exactly one 1 in
\* every row, or 0/1 columns with several labels in some row
TargetType ==
    IF ~isBinarized64(yb) THEN "regression"
    ELSE IF yb.Cols = 1 THEN "binary"
    ELSE IF \A i \in 0..(yb.Rows - 1) :
                Cardinality({j \in 0..(yb.Cols - 1) : At(yb, i, j) = 1}) = 1
         THEN "multiclass"
         ELSE "multilabel"

FreshFitUnderWay == pc # "idle" /\ ~hp.WarmStart

\* C20: output pairing selection.  A fresh fit selects identity with
\* square_loss for regression targets, logistic with binary_log_loss for a
\* single 0/1 column and for multi-label 0/1 columns, softmax with log_loss
\* for one-hot multi-class targets, and never another pair.
C20_OutputPairing ==
    FreshFitUnderWay =>
        <<OutActivation, LossFuncName>> =
            CASE TargetType = "regression" -> <<"identity", "square_loss">>
              [] TargetType \in {"binary", "multilabel"} -> <<"logistic", "binary_log_loss">>
              [] TargetType = "multiclass" -> <<"softmax", "log_loss">>

-----------------------------------------------------------------------------
(* Properties of the validation split *)

\* the logical rows at the validation positions, and at the training
\* positions, of the row order o
ValidationOf(o) == {o[p] : p \in ValidationRows}

TrainingOf(o) == {o[p] : p \in 1..TrainRows}

\* C21: validation hold-out.  During a fit with early stopping the
\* validation slice is the trailing ceil(ValidationFraction * nSamples) row
\* positions and no minibatch reaches into it; without shuffling every epoch
\* of the fit has the same logical rows at the validation positions and
\* trains on none of them.  (With shuffling a row scored as validation in
\* one epoch is trained on in another: the state C21_Witness describes.)
C21_ValidationHoldOut ==
    (pc # "idle" /\ earlyStopping) =>
        /\ VFDen * testSize >= hp.ValidationFraction * nSamples
        /\ VFDen * (testSize - 1) < hp.ValidationFraction * nSamples
        /\ ValidationRows = (nSamples - testSize + 1)..nSamples
        /\ batch[1] <= nSamples - testSize
        /\ ~hp.Shuffle =>
            \A k \in 1..Len(fitLog) :
                /\ ValidationOf(fitLog[k].order) = ValidationOf(X)
                /\ \A l \in 1..Len(fitLog) :
                    TrainingOf(fitLog[l].order) \cap ValidationOf(fitLog[k].order) = {}

\* a fit with early stopping and shuffling in which a row scored as
\* validation in one epoch was trained on in another
C21_Witness ==
    /\ pc # "idle" /\ earlyStopping /\ hp.Shuffle
    /\ \E k \in 1..Len(fitLog) : \E l \in 1..Len(fitLog) :
        TrainingOf(fitLog[l].order) \cap ValidationOf(fitLog[k].order) # {}

-----------------------------------------------------------------------------
(* Properties of the optimizer *)

\* the step from Fit's call to the first epoch of a stochastic fit
StochasticFitBegins == pc = "idle" /\ pc' = "loop"

\* C22: optimizer state lifetime.  When a stochastic fit begins, the
\* optimizer of the model is a fresh one of the configured solver: it has
\* taken no step (no velocities or moment vectors yet, a step counter of 0)
\* and its learning rate is LearningRateInit, whatever optimizer an earlier
\* fit left behind.
C22_FreshOptimizer ==
    [][StochasticFitBegins =>
        /\ optimizer'.kind = hp.Solver
        /\ optimizer'.steps = 0
        /\ optimizer'.LearningRateInit = hp.LearningRateInit
        /\ optimizer'.LearningRate = [num |-> hp.LearningRateInit, den |-> 1]
        /\ optimizer'.LRSchedule = IF hp.Solver = "sgd" THEN hp.LearningRate ELSE ""]_vars

\* the second fit of a model begins, after a first fit whose optimizer took
\* steps and whose learning rate was no longer LearningRateInit
C22_Witness ==
    /\ fitNo = 2 /\ pc = "loop" /\ it = 0 /\ result = "none"
    /\ epochsDone >= 1
    /\ hp.Solver = "sgd" /\ hp.LearningRate = "invscaling"
    /\ optimizer.steps = 0 /\ optimizer.LearningRate.den = 1

-----------------------------------------------------------------------------
(* Properties of a second fit *)

\* the first epoch of a fit without warm start that follows an earlier fit of
\* the same model, one that trained for at least an epoch
FirstEpochOfLaterFit ==
    /\ fitNo >= 2 /\ ~hp.WarmStart /\ epochsDone >= 1
    /\ pc \in {"loop", "batch", "epochEnd"} /\ it = 0 /\ Len(fitLog) = 0

\* C23: a new fit without warm start inherits no stopping diagnostics.  At
\* its first epoch the no-improvement counter is 0, the best loss is +Inf and
\* the best validation score is below every score a network can reach, and
\* the loss history and the validation-score history are empty.
C23_NoInheritedDiagnostics ==
    FirstEpochOfLaterFit =>
        /\ NoImprovementCount = 0
        /\ BestLoss = PosInf
        /\ \A s \in ScoreInputs : FloatLt(BestValidationScore, s)
        /\ LossCurve = <<>>
        /\ ValidationScores = <<>>

-----------------------------------------------------------------------------
(* The activation, output activation and derivative maps during a fit *)

\* the keys of Derivatives64
DerivativeNames == {"identity", "logistic", "tanh", "relu"}

\* the output activations initialize selects
OutActivationNames == {"identity", "logistic", "softmax"}

\* the networks followed: any registered hidden activation name and one
\* that is not, with no hidden layer up to MaxHidden + 1 of them
LookupNets ==
    [Activation : ActivationNames \cup {"bogus"}, OutActivation : OutActivationNames,
     NLayers : 2..(MaxHidden + 3)]

InitLookup ==
    /\ bkPc = "fit"
    /\ bkNet \in LookupNets
    /\ bkLayer = 0
    /\ MLPNew(BaseHP, "")
    /\ LBOff
    /\ GradOff
    /\ LbfgsOff
    /\ LoadOff
    /\ BufOff
    /\ AdamOff
    /\ ShufOff

\* fit: validateHyperparameters panics or lets the fit go on to backprop
ValidateActivation ==
    /\ bkPc = "fit"
    /\ bkPc' = IF validateHyperparameters([BaseHP EXCEPT !.Activation = bkNet.Activation])
               THEN "backprop" ELSE "panic"
    /\ UNCHANGED <<bkNet, bkLayer, nonLookupVars>>

\* backprop up to its backward loop: forwardPass (Activations64 of the
\* hidden and of the output activation), the loss, the last layer
ForwardAndLastLayer ==
    /\ bkPc = "backprop"
    /\ bkPc' = IF bkNet.Activation \in ActivationNames /\ bkNet.OutActivation \in ActivationNames
               THEN "backward" ELSE "nilcall"
    /\ bkLayer' = bkNet.NLayers - 2
    /\ UNCHANGED <<bkNet, nonLookupVars>>

\* one round of the backward loop "for i := NLayers-2; i >= 1; i--":
\* Derivatives64[mlp.Activation] is looked up and called; the call of the
\* nil function a missing key gives panics
BackwardLayer ==
    /\ bkPc = "backward"
    /\ IF bkLayer >= 1
       THEN IF bkNet.Activation \in DerivativeNames
            THEN bkLayer' = bkLayer - 1 /\ bkPc' = "backward"
            ELSE bkLayer' = bkLayer /\ bkPc' = "nilcall"
       ELSE bkLayer' = bkLayer /\ bkPc' = "returned"
    /\ UNCHANGED <<bkNet, nonLookupVars>>

NextLookup == ValidateActivation \/ ForwardAndLastLayer \/ BackwardLayer

SpecLookup == InitLookup /\ [][NextLookup]_vars

\* C24: in a fit of a network with at least one hidden layer, a hidden
\* activation name that validateHyperparameters has accepted has a
\* derivative registered in Derivatives64, and backprop does not fail on
\* the call of a missing function.
C24_DerivativeRegistered ==
    (bkNet.NLayers > 2 /\ bkPc \in {"backprop", "backward", "returned", "nilcall"}) =>
        /\ bkNet.Activation \in DerivativeNames
        /\ bkPc # "nilcall"

-----------------------------------------------------------------------------
(* Properties of the end of a batch-mode fit *)

\* a batch-mode fit has returned
LbfgsFitReturned == Concurrent >= 1 /\ hp.Solver = "lbfgs" /\ pc = "idle" /\ result = "ok"

\* C25: after a batch-mode (lbfgs) fit returns, the parameter buffer of the
\* model holds the final parameter vector the minimizer returned, not the
\* point of whichever cost evaluation ran last.
C25_FinalParameters ==
    LbfgsFitReturned => packedParameters = resX

-----------------------------------------------------------------------------
(* base.Shuffle: the joint shuffle of the rows of X and the targets y *)

\* the largest number of rows shuffled
MaxShuffleRows == 4

\* the target values
ShuffleTargets == {1, 2}

\* s with the elements at the (0-based) indices a and b swapped
SwapAt(s, a, b) == [s EXCEPT ![a + 1] = s[b + 1], ![b + 1] = s[a + 1]]

\* a call Shuffle(X, y) with nSamples rows and either one target per row or
\* a nil y
InitShuffle ==
    /\ shPc = "loop"
    /\ \E n \in 0..MaxShuffleRows :
        /\ shX = [p \in 1..n |-> p]
        /\ \/ shYNil = TRUE /\ shY = <<>>
           \/ shYNil = FALSE /\ shY \in [1..n -> ShuffleTargets]
    /\ shY0 = shY
    /\ shI = 0
    /\ shJ = 0
    /\ MLPNew(BaseHP, "")
    /\ LBOff
    /\ GradOff
    /\ LbfgsOff
    /\ LoadOff
    /\ BufOff
    /\ AdamOff
    /\ LookupOff

\* a loop round that swaps the rows of X only
ShuffleRound_XOnly(r) ==
    /\ shPc = "loop"
    /\ shI < Len(shX)
    /\ r < Len(shX) - shI
    /\ shJ' = shI + r
    /\ shX' = SwapAt(shX, shI, shI + r)
    /\ shY' = shY
    /\ shI' = shI + 1
    /\ UNCHANGED <<shPc, shYNil, shY0, nonShufVars>>

\* one round of "for i := range X": j := i + rand.Intn(nSamples-i) with the
\* draw r, the swap of X[i] and X[j], and that of y[i] and y[j] unless y is
\* nil
ShuffleRound(r) ==
    /\ shPc = "loop"
    /\ shI < Len(shX)
    /\ r < Len(shX) - shI
    /\ shJ' = shI + r
    /\ shX' = SwapAt(shX, shI, shI + r)
    /\ shY' = IF shYNil THEN shY ELSE SwapAt(shY, shI, shI + r)
    /\ shI' = shI + 1
    /\ UNCHANGED <<shPc, shYNil, shY0, nonShufVars>>

\* the end of the loop
ShuffleReturn ==
    /\ shPc = "loop"
    /\ shI = Len(shX)
    /\ shPc' = "returned"
    /\ UNCHANGED <<shX, shY, shYNil, shY0, shI, shJ, nonShufVars>>

NextShuffle ==
    \/ \E r \in 0..(MaxShuffleRows - 1) : ShuffleRound(r)
    \/ ShuffleReturn

SpecShuffle == InitShuffle /\ [][NextShuffle]_vars

\* C26: base.Shuffle(X, y) is a joint permutation.  After every round and at
\* the return, whatever was drawn, X holds exactly the rows of the call in
\* some order, y[i] is the target that was paired with the row now at X[i],
\* the swap index j of the last round satisfies i <= j < nSamples, and a nil
\* y is still nil.
C26_JointPermutation ==
    shPc \in {"loop", "returned"} =>
        /\ \A p \in 1..Len(shX) : \E q \in 1..Len(shX) : shX[q] = p
        /\ \A q \in 1..Len(shX) : shX[q] \in 1..Len(shX)
        /\ ~shYNil => /\ Len(shY) = Len(shX)
                      /\ \A q \in 1..Len(shX) : shY[q] = shY0[shX[q]]
        /\ shYNil => shY = <<>>
        /\ shI >= 1 => (shI - 1 <= shJ /\ shJ < Len(shX))

\* Shuffle has returned with the rows in another order than at the call,
\* and with targets in another order than at the call
C26_Witness ==
    /\ shPc = "returned"
    /\ ~shYNil
    /\ shX # [p \in 1..Len(shX) |-> p]
    /\ shY # shY0

====
